---- MODULE Spec2Model ----
(***************************************************************************)
(* A model of fable-xport: the record normalizer and the three exporters   *)
(* (exporters.py), the review merger, the paginated retrieval client and   *)
(* the aggregator (fable_api.py), and the export run (cli.py).             *)
(*                                                                         *)
(* Raw JSON values are a tagged union: a value is a record whose field t   *)
(* names the Python type and whose field v holds the payload.              *)
(***************************************************************************)
EXTENDS Integers, Sequences, FiniteSets, TLC

VARIABLES
    raw,        \* normalizer: the raw record handed to normalize_book
    canon,      \* normalizer: what normalize_book gave for it
    books,      \* merger: the list of raw book records
    reviews,    \* merger: the review lookup, book identifier -> review entry
    merged,     \* merger: what merge_reviews_with_books gave
    user_id,    \* configuration: FABLE_USER_ID
    auth_token, \* configuration: FABLE_AUTH_TOKEN
    call,       \* retrieval client: the fetch operation called
    pc,         \* "idle", "loop" (about to request), "returned", "raised"
    exc,        \* the exception the call ended in
    url,        \* fetch_owned_books: the address of the next request
    offset,     \* offset pagination: the offset of the next request
    all_books,  \* the books accumulated by the call
    reviews_by_book, \* the lookup accumulated by fetch_user_reviews
    result,     \* the value the call returned
    requests,   \* the requests the call has issued, in order
    responses,  \* what the service answered to each
    separate_lists, \* export run: one file per list (TRUE) or combined
    formats,    \* export run: the formats asked for, in order
    stage,      \* export run: the position of export_books
    exit_status, \* export run: -1 until the run ends, then 0 or 1
    escaped,    \* export run: the exception that ended it
    fetches,    \* export run: what each fetch operation called gave, in order
    run_reviews, \* export run: the lookup fetch_user_reviews returned
    lists,      \* export run: the catalog entries not yet visited
    gathered,   \* all_books of fetch_all_books
    to_export,  \* the book list handed to the exporters
    safe_name,  \* the file name (without suffix) of the unit being written
    pending,    \* the formats not yet written for the unit
    fs,         \* the file system: directories, and files with contents
    writes,     \* the exporter calls made and how each ended
    warnings    \* the diagnostics printed for failures the run survived

nvars == <<raw, canon>>
mvars == <<books, reviews, merged>>
fvars == <<user_id, auth_token, call, pc, exc, url, offset, all_books,
           reviews_by_book, result, requests, responses>>
xvars == <<separate_lists, formats, stage, exit_status, escaped, fetches,
           run_reviews, lists, gathered, to_export, safe_name, pending, fs,
           writes, warnings>>
vars == <<raw, canon, books, reviews, merged, user_id, auth_token, call, pc,
          exc, url, offset, all_books, reviews_by_book, result, requests,
          responses, separate_lists, formats, stage, exit_status, escaped,
          fetches, run_reviews, lists, gathered, to_export, safe_name,
          pending, fs, writes, warnings>>

(***************************************************************************)
(* Bounds of the model.                                                    *)
(***************************************************************************)
\* the number of keys placed in a raw record (outer and nested together)
MaxKeys == 2
\* the length of the book list handed to the merger
MaxBooks == 2
\* the requests one fetch operation may issue
MaxRequests == 3
\* the items of a page of owned books
MaxPage == 2
\* the length of the book list handed to an exporter
MaxEntries == 3

(***************************************************************************)
(* Python values.                                                          *)
(***************************************************************************)
Null == [t |-> "null"]
Str(s) == [t |-> "str", v |-> s]
Num(n) == [t |-> "num", v |-> n]
Bool(b) == [t |-> "bool", v |-> b]
List(s) == [t |-> "list", v |-> s]
Map(f) == [t |-> "map", v |-> f]

EmptyFcn == [k \in {} |-> Null]
EmptyMap == Map(EmptyFcn)
EmptyList == List(<<>>)
EmptyStr == Str("")

IsDict(x) == x.t = "map"
IsList(x) == x.t = "list"

\* Python truthiness (bool(x))
Truthy(x) ==
    CASE x.t = "null" -> FALSE
      [] x.t = "str"  -> x.v # ""
      [] x.t = "num"  -> x.v # 0
      [] x.t = "bool" -> x.v
      [] x.t = "list" -> Len(x.v) > 0
      [] x.t = "map"  -> DOMAIN x.v # {}

\* a `or` b
Or2(a, b) == IF Truthy(a) THEN a ELSE b

\* d.get(k) and d.get(k, dflt) on a mapping d
GetD(d, k, dflt) == IF k \in DOMAIN d.v THEN d.v[k] ELSE dflt
Get(d, k) == GetD(d, k, Null)

\* d[k] = x on a copy of the mapping d
Put(d, k, x) == Map([j \in DOMAIN d.v \cup {k} |-> IF j = k THEN x ELSE d.v[j]])

\* whether iter(x) / x.get exist
Iterable(x) == x.t \in {"list", "str", "map"}

(***************************************************************************)
(* normalize_book (exporters.py).  The result is [st |-> "ok", rec |-> r]  *)
(* or [st |-> "raised", exc |-> e, line |-> n] when the call ends in an    *)
(* exception e raised at source line n.                                    *)
(***************************************************************************)
Ok(r) == [st |-> "ok", rec |-> r]
Raised(e, n) == [st |-> "raised", exc |-> e, line |-> n]
NotRun == [st |-> "none"]

NormalizeIdle == raw = Null /\ canon = NotRun

\* no fetch operation has been called
FetchIdle ==
    /\ call = "none" /\ pc = "idle" /\ exc = "none"
    /\ url = Null /\ offset = 0 /\ all_books = <<>>
    /\ reviews_by_book = EmptyMap /\ result = Null
    /\ requests = <<>> /\ responses = <<>>

NoCredentials == user_id = Null /\ auth_token = Null

\* a file system with no directory and no file
EmptyFs == [dirs |-> {}, files |-> [p \in {} |-> Null]]

\* export_books has not been called and no exporter has run
ExportIdle ==
    /\ separate_lists = FALSE /\ formats = <<>> /\ stage = "idle"
    /\ exit_status = -1 /\ escaped = "none" /\ fetches = <<>>
    /\ run_reviews = Map([k \in {} |-> Null]) /\ lists = <<>>
    /\ gathered = <<>> /\ to_export = <<>> /\ safe_name = ""
    /\ pending = <<>> /\ fs = EmptyFs /\ writes = <<>> /\ warnings = <<>>

\* the record returned for a null, empty or non-mapping input
DefaultRecord ==
    [title |-> EmptyStr, subtitle |-> EmptyStr, authors |-> EmptyList,
     isbn |-> Null, imprint |-> Null, page_count |-> Null,
     published_date |-> Null, description |-> EmptyStr,
     cover_image |-> EmptyStr, genres |-> EmptyList,
     storygraph_genres |-> EmptyList, moods |-> EmptyList,
     content_warnings |-> EmptyList, status |-> Null, rating |-> Null,
     review |-> EmptyStr, review_summary_liked |-> EmptyStr,
     review_summary_disliked |-> EmptyStr,
     review_summary_disagreed |-> EmptyStr, contains_spoilers |-> Null,
     did_not_finish |-> Null, review_created_at |-> Null, added_at |-> Null,
     started_reading_at |-> EmptyStr, finished_reading_at |-> EmptyStr,
     current_page |-> Null, total_pages |-> Null,
     characters_rating |-> Null, plot_rating |-> Null,
     writing_style_rating |-> Null, setting_rating |-> Null,
     attributes |-> EmptyList, emoji_reaction |-> EmptyStr,
     spicy_level |-> Null]

\* [x.get("name") for x in xs if isinstance(x, dict) and x.get("name")]
\* over a list; iterating a string or a mapping yields strings, all of
\* which the isinstance filter drops
NamesOf(xs) ==
    IF IsList(xs)
    THEN LET sel == SelectSeq(xs.v, LAMBDA g : IsDict(g) /\ Truthy(Get(g, "name")))
         IN  List([i \in 1..Len(sel) |-> Get(sel[i], "name")])
    ELSE EmptyList

\* a normalizer that never looks under `book`
BookDataOuter(book) == book

\* book_data: the nested mapping under `book` when it is a mapping
BookData(book) ==
    IF IsDict(Get(book, "book")) THEN GetD(book, "book", book) ELSE book

\* authors
Authors(book, book_data) ==
    LET a == Or2(Or2(Get(book_data, "authors"), Get(book, "authors")), EmptyList)
    IN  IF IsList(a) THEN a ELSE EmptyList

\* the genres comprehension raises TypeError on a truthy non-iterable
GenresRaises(book_data) ==
    Truthy(Get(book_data, "genres")) /\ ~Iterable(Get(book_data, "genres"))

Genres(book_data) ==
    IF Truthy(Get(book_data, "genres")) THEN NamesOf(Get(book_data, "genres"))
    ELSE EmptyList

StorygraphTags(book_data) == Or2(Get(book_data, "storygraph_tags"), EmptyMap)

TagGroup(book_data, k) ==
    LET st == StorygraphTags(book_data)
    IN  IF IsDict(st) THEN GetD(st, k, EmptyList) ELSE EmptyList

ReviewSummary(book_data) == Or2(Get(book_data, "review_summary"), EmptyMap)

SummaryText(book_data, k) ==
    LET rs == ReviewSummary(book_data)
    IN  IF IsDict(rs) THEN Get(rs, k) ELSE EmptyStr

ReadingProgress(book_data) == Or2(Get(book_data, "reading_progress"), EmptyMap)

ReadStatus(book_data) ==
    LET rp == ReadingProgress(book_data)
    IN  IF IsDict(rp) THEN Get(rp, "status") ELSE EmptyStr

\* reading_progress.get(...) is called without the isinstance test
ProgressRaises(book_data) == ~IsDict(ReadingProgress(book_data))

ProgressField(book_data, k) == Get(ReadingProgress(book_data), k)

AttributeNames(book) ==
    LET a == Or2(GetD(book, "attributes", EmptyList), EmptyList)
    IN  IF IsList(a) THEN NamesOf(a) ELSE EmptyList

\* (book.get("emoji") or {}).get("content") is evaluated only when
\* book.get("emoji_reaction") is falsy
EmojiRaises(book) ==
    /\ ~Truthy(Get(book, "emoji_reaction"))
    /\ ~IsDict(Or2(Get(book, "emoji"), EmptyMap))

EmojiReaction(book) ==
    Or2(Or2(Get(book, "emoji_reaction"),
            Get(Or2(Get(book, "emoji"), EmptyMap), "content")),
        EmptyStr)

NormalizeBook(book) ==
    IF ~Truthy(book) \/ ~IsDict(book) THEN Ok(DefaultRecord)
    ELSE LET book_data == BookData(book) IN
    IF GenresRaises(book_data) THEN Raised("TypeError", 64)
    ELSE IF ProgressRaises(book_data) THEN Raised("AttributeError", 81)
    ELSE IF EmojiRaises(book) THEN Raised("AttributeError", 132)
    ELSE Ok(
    [title |-> Or2(Get(book_data, "title"), Get(book, "title")),
     subtitle |-> Or2(Get(book_data, "subtitle"), EmptyStr),
     authors |-> Authors(book, book_data),
     isbn |-> Or2(Get(book_data, "isbn"), Get(book, "isbn")),
     imprint |-> Or2(Or2(Get(book_data, "publisher"), Get(book_data, "imprint")),
                     Get(book, "publisher")),
     page_count |-> Or2(Or2(Get(book_data, "page_count"), Get(book_data, "pages")),
                        Get(book, "page_count")),
     published_date |-> Or2(Or2(Get(book_data, "published_date"),
                                Get(book_data, "publish_date")),
                            Get(book, "published_date")),
     description |-> Or2(Get(book_data, "description"), EmptyStr),
     cover_image |-> Or2(Get(book_data, "cover_image"), EmptyStr),
     genres |-> Genres(book_data),
     storygraph_genres |-> TagGroup(book_data, "genres"),
     moods |-> TagGroup(book_data, "moods"),
     content_warnings |-> TagGroup(book_data, "content_warnings"),
     status |-> Or2(ReadStatus(book_data), Get(book, "status")),
     rating |-> Get(book, "rating"),
     review |-> Or2(Get(book, "review"), EmptyStr),
     review_summary_liked |-> SummaryText(book_data, "liked"),
     review_summary_disliked |-> SummaryText(book_data, "disliked"),
     review_summary_disagreed |-> SummaryText(book_data, "disagreed"),
     contains_spoilers |-> Get(book, "contains_spoilers"),
     did_not_finish |-> Get(book, "did_not_finish"),
     review_created_at |-> Or2(Get(book, "review_created_at"), Get(book, "created_at")),
     added_at |-> Get(book, "added_at"),
     started_reading_at |-> Or2(Get(book_data, "started_reading_at"), EmptyStr),
     finished_reading_at |-> Or2(Get(book_data, "finished_reading_at"), EmptyStr),
     current_page |-> ProgressField(book_data, "current_page"),
     total_pages |-> ProgressField(book_data, "page_count"),
     characters_rating |-> Get(book, "characters_rating"),
     plot_rating |-> Get(book, "plot_rating"),
     writing_style_rating |-> Get(book, "writing_style_rating"),
     setting_rating |-> Get(book, "setting_rating"),
     attributes |-> AttributeNames(book),
     emoji_reaction |-> EmojiReaction(book),
     spicy_level |-> Get(book, "spicy_level")])

(***************************************************************************)
(* fetch_user_reviews, the loop body that files one review record into the *)
(* lookup, and merge_reviews_with_books (fable_api.py).  The lookup is a   *)
(* mapping from identifier strings to review entries.                      *)
(***************************************************************************)
ReviewKeys ==
    {"rating", "review", "contains_spoilers", "did_not_finish",
     "characters_rating", "plot_rating", "writing_style_rating",
     "setting_rating", "attributes", "emoji_reaction", "emoji",
     "spicy_level", "created_at", "updated_at"}

\* the entry stored for a review record
ReviewEntry(review) ==
    Map([k \in ReviewKeys |->
           IF k = "attributes" THEN GetD(review, k, EmptyList) ELSE Get(review, k)])

\* a list or a mapping cannot be a dictionary key
Hashable(x) == x.t \notin {"list", "map"}

\* whether filing the record raises: review.get / book_data.get on a
\* non-mapping (AttributeError), an unhashable identifier (TypeError)
ReviewRaises(review) ==
    \/ ~IsDict(review)
    \/ ~IsDict(GetD(review, "book", EmptyMap))
    \/ LET book_id == Get(GetD(review, "book", EmptyMap), "id")
       IN  Truthy(book_id) /\ ~Hashable(book_id)

\* reviews_by_book after one record of a page; identifiers are strings
AddReview(lookup, review) ==
    LET book_id == Get(GetD(review, "book", EmptyMap), "id")
    IN  IF Truthy(book_id) THEN Put(lookup, book_id.v, ReviewEntry(review))
        ELSE lookup

\* book_id in reviews
InLookup(book_id, lookup) == book_id.t = "str" /\ book_id.v \in DOMAIN lookup.v

\* merged_book.update(review_data) with the book's own value kept on collision
MergeUpdateKeepBook(book, review_data) ==
    Map([k \in DOMAIN book.v \cup DOMAIN review_data.v |->
           IF k \in DOMAIN book.v THEN book.v[k] ELSE review_data.v[k]])

\* merged_book = dict(book); merged_book.update(review_data)
MergeUpdate(book, review_data) ==
    Map([k \in DOMAIN book.v \cup DOMAIN review_data.v |->
           IF k \in DOMAIN review_data.v THEN review_data.v[k] ELSE book.v[k]])

\* a merger that looks for the identifier on the record itself only
MergeBookDataOuter(book) == book

\* the record holding the identifier: the nested `book` mapping if any
MergeBookData(book) ==
    IF IsDict(Get(book, "book")) THEN GetD(book, "book", EmptyMap) ELSE book

\* the record emitted for one mapping-typed book
MergeOne(book, lookup) ==
    LET book_data == MergeBookData(book) IN
    IF ~Truthy(book_data) \/ ~IsDict(book_data) THEN book
    ELSE LET book_id == Get(book_data, "id") IN
         IF Truthy(book_id) /\ ~Hashable(book_id) THEN book   \* except Exception
         ELSE IF Truthy(book_id) /\ InLookup(book_id, lookup)
              THEN LET review_data == Get(lookup, book_id.v)
                   IN  IF Truthy(review_data) /\ IsDict(review_data)
                       THEN MergeUpdate(book, review_data)
                       ELSE book
              ELSE book

\* a merger that tests the truth of the entry, dropping empty mappings too
SkipFalsy(bs) == SelectSeq(bs, LAMBDA b : IsDict(b) /\ Truthy(b))

\* the entries the loop does not skip
SkipMalformed(bs) == SelectSeq(bs, LAMBDA b : b # Null /\ IsDict(b))

MergeReviewsWithBooks(bs, lookup) ==
    LET kept == SkipMalformed(bs)
    IN  [i \in 1..Len(kept) |-> MergeOne(kept[i], lookup)]

\* the caller's list after the call: every update is made on a copy
BooksAfterMerge(bs, lookup) == bs

(***************************************************************************)
(* Inputs of the merger.                                                   *)
(***************************************************************************)
BookInputs ==
    {Null, Str("x"), EmptyMap,
     Map([k \in {"id", "title"} |-> Str(IF k = "id" THEN "A" ELSE "Foo")]),
     Map([k \in {"id", "title", "rating"} |->
            Str(CASE k = "id" -> "A" [] k = "title" -> "Foo2" [] OTHER -> "old")]),
     Map([k \in {"id", "title"} |-> Str(IF k = "id" THEN "C" ELSE "Baz")]),
     Map([k \in {"title"} |-> Str("NoId")]),
     Map([k \in {"id", "title"} |-> IF k = "id" THEN EmptyStr ELSE Str("EmptyId")]),
     Map([k \in {"id", "title"} |->
            IF k = "id" THEN List(<<Str("A")>>) ELSE Str("ListId")]),
     Map([k \in {"book"} |->
            Map([j \in {"id", "title"} |-> Str(IF j = "id" THEN "B" ELSE "Bar")])]),
     Map([k \in {"book", "rating", "id"} |->
            CASE k = "book" ->
                   Map([j \in {"id", "title"} |-> Str(IF j = "id" THEN "C" ELSE "Qux")])
              [] k = "id" -> Str("A")
              [] OTHER -> Str("old")]),
     Map([k \in {"book", "title"} |-> IF k = "book" THEN EmptyMap ELSE Str("Hollow")]),
     Map([k \in {"book", "id"} |-> IF k = "book" THEN Str("x") ELSE Str("B")])}

\* review records as the service gives them
ReviewInputs ==
    {Map([k \in {"book", "rating", "review"} |->
            CASE k = "book" -> Map([j \in {"id"} |-> Str("A")])
              [] k = "rating" -> Num(4)
              [] OTHER -> Str("good")]),
     Map([k \in {"book", "rating"} |->
            IF k = "book" THEN Map([j \in {"id"} |-> Str("A")]) ELSE Num(2)]),
     Map([k \in {"book", "rating", "attributes"} |->
            CASE k = "book" -> Map([j \in {"id"} |-> Str("B")])
              [] k = "rating" -> Num(5)
              [] OTHER -> List(<<Map([j \in {"name"} |-> Str("cosy")])>>)]),
     Map([k \in {"book", "rating"} |->
            IF k = "book" THEN EmptyMap ELSE Num(1)]),
     Map([k \in {"rating"} |-> Num(3)])}

MergeIdle == books = <<>> /\ reviews = EmptyMap /\ merged = NotRun

InitMerge ==
    /\ MergeIdle
    /\ NormalizeIdle
    /\ NoCredentials /\ FetchIdle
    /\ ExportIdle

AddBook(b) ==
    /\ merged.st = "none"
    /\ Len(books) < MaxBooks
    /\ books' = Append(books, b)
    /\ UNCHANGED <<reviews, merged, nvars, fvars, xvars>>

\* one more record of the review history is filed
FileReview(r) ==
    /\ merged.st = "none"
    /\ ~ReviewRaises(r)
    /\ reviews' = AddReview(reviews, r)
    /\ UNCHANGED <<books, merged, nvars, fvars, xvars>>

Merge ==
    /\ merged.st = "none"
    /\ merged' = Ok(MergeReviewsWithBooks(books, reviews))
    /\ books' = BooksAfterMerge(books, reviews)
    /\ UNCHANGED <<reviews, nvars, fvars, xvars>>

NextMerge ==
    \/ \E b \in BookInputs : AddBook(b)
    \/ \E r \in ReviewInputs : FileReview(r)
    \/ Merge

SpecMerge == InitMerge /\ [][NextMerge]_vars

(***************************************************************************)
(* Raw inputs of the normalizer: a non-mapping value, or a mapping built   *)
(* key by key, with or without a value under `book`.                       *)
(***************************************************************************)
ScalarKeys ==
    {"title", "subtitle", "isbn", "publisher", "imprint", "page_count",
     "pages", "published_date", "publish_date", "description", "cover_image",
     "status", "rating", "review", "contains_spoilers", "did_not_finish",
     "review_created_at", "created_at", "added_at", "started_reading_at",
     "finished_reading_at", "emoji_reaction", "spicy_level",
     "characters_rating", "plot_rating", "writing_style_rating",
     "setting_rating"}

StructKeys ==
    {"authors", "genres", "storygraph_tags", "review_summary",
     "reading_progress", "attributes", "emoji"}

\* keys whose value is returned as it is, with no test of its truth
PlainKeys ==
    {"rating", "contains_spoilers", "did_not_finish", "added_at",
     "spicy_level", "characters_rating", "plot_rating",
     "writing_style_rating", "setting_rating"}

\* the kinds of value tried under key k: the ones the code tells apart
KindsOf(k) ==
    CASE k \in {"storygraph_tags", "review_summary", "reading_progress", "emoji"} ->
           {"str", "list", "map", "emap"}
      [] k = "genres" -> {"str", "num", "list"}
      [] k \in {"authors", "attributes"} -> {"str", "list"}
      [] k \in PlainKeys -> {"str"}
      [] OTHER -> {"empty", "str"}

\* a populated mapping of the shape the service gives under key k
SubMapping(k, mark) ==
    CASE k = "storygraph_tags" ->
           Map([j \in {"moods", "content_warnings", "genres"} |-> List(<<Str(mark)>>)])
      [] k = "review_summary" ->
           Map([j \in {"liked", "disliked", "disagreed"} |-> Str(mark)])
      [] k = "reading_progress" ->
           Map([j \in {"status", "current_page", "page_count"} |-> Str(mark)])
      [] k = "emoji" -> Map([j \in {"content"} |-> Str(mark)])
      [] OTHER -> Map([j \in {"name"} |-> Str(mark)])

\* the value of the given kind; mark tells where it was placed
Sample(k, kind, mark) ==
    CASE kind = "empty" -> EmptyStr
      [] kind = "str"   -> Str(mark)
      [] kind = "num"   -> Num(IF mark = "outer" THEN 1 ELSE 2)
      [] kind = "list"  -> List(<<Map([j \in {"name"} |-> Str(mark)])>>)
      [] kind = "map"   -> SubMapping(k, mark)
      [] kind = "emap"  -> EmptyMap

NonMappings == {Null, Str("x"), Num(0), Num(7), List(<<Str("x")>>), EmptyList}

HasNested(r) == IsDict(r) /\ IsDict(Get(r, "book"))

\* the keys placed so far, `book` itself not counted
KeyCount(r) ==
    IF ~IsDict(r) THEN 0
    ELSE Cardinality(DOMAIN r.v \ {"book"})
         + (IF HasNested(r) THEN Cardinality(DOMAIN Get(r, "book").v) ELSE 0)

InitNormalize ==
    /\ raw \in NonMappings \cup {EmptyMap}
    /\ canon = NotRun
    /\ MergeIdle
    /\ NoCredentials /\ FetchIdle
    /\ ExportIdle

SetOuter(k, kind) ==
    /\ canon.st = "none"
    /\ IsDict(raw)
    /\ k \notin DOMAIN raw.v
    /\ KeyCount(raw) < MaxKeys
    /\ raw' = Put(raw, k, Sample(k, kind, "outer"))
    /\ UNCHANGED <<canon, mvars, fvars, xvars>>

SetBook(x) ==
    /\ canon.st = "none"
    /\ IsDict(raw)
    /\ "book" \notin DOMAIN raw.v
    /\ raw' = Put(raw, "book", x)
    /\ UNCHANGED <<canon, mvars, fvars, xvars>>

SetNested(k, kind) ==
    /\ canon.st = "none"
    /\ HasNested(raw)
    /\ k \notin DOMAIN Get(raw, "book").v
    /\ KeyCount(raw) < MaxKeys
    /\ raw' = Put(raw, "book", Put(Get(raw, "book"), k, Sample(k, kind, "nested")))
    /\ UNCHANGED <<canon, mvars, fvars, xvars>>

Normalize ==
    /\ canon.st = "none"
    /\ canon' = NormalizeBook(raw)
    /\ UNCHANGED <<raw, mvars, fvars, xvars>>

NextNormalize ==
    \/ \E k \in ScalarKeys \cup StructKeys : \E kind \in KindsOf(k) : SetOuter(k, kind)
    \/ \E x \in {EmptyMap, Null, Str("x"), List(<<Str("x")>>)} : SetBook(x)
    \/ \E k \in ScalarKeys \cup StructKeys : \E kind \in KindsOf(k) : SetNested(k, kind)
    \/ Normalize

SpecNormalize == InitNormalize /\ [][NextNormalize]_vars

(***************************************************************************)
(* The retrieval client (fable_api.py).  One fetch operation is called;    *)
(* each step of a pagination loop issues one request and handles the       *)
(* answer the service gives to it.                                         *)
(***************************************************************************)
\* limit of fetch_books_from_list and of fetch_user_reviews
ListLimit == 100
ReviewLimit == 20

OwnedUrl == "https://api.fable.co/api/v2/books/owned/?include=preorder,owned"

\* validate_credentials passes
CredentialsUserOnly(u, t) == Truthy(u)

CredentialsValid(u, t) == Truthy(u) /\ Truthy(t)

\* a request: the endpoint, the address (cursor pagination) or the offset
\* and limit (offset pagination)
Request(ep, u, off, lim) == [ep |-> ep, url |-> u, offset |-> off, limit |-> lim]

\* an answer: requests.get raised (net = "error"), or an HTTP status and a
\* body; the body is a JSON value or not JSON at all
NetError == [net |-> "error", status |-> 0, data |-> Null]
Http(status, data) == [net |-> "ok", status |-> status, data |-> data]
NotJson == [t |-> "notjson"]

\* requests.get or raise_for_status raises a RequestException
HttpFails(r) == r.net = "error" \/ r.status >= 400

\* the items of the page answered to the p-th request
Items(p, n) == [i \in 1..n |-> Num(1000 * p + i)]

\* len(x); a number has no len()
HasLen(x) == x.t \in {"list", "str", "map"}
PyLen(x) ==
    CASE x.t = "list" -> Len(x.v)
      [] x.t = "str"  -> Len(x.v)
      [] x.t = "map"  -> Cardinality(DOMAIN x.v)

LongStr == Str("xxxxxxxxxxxxxxxxxxxxxxxxxxxxxxxxxxxxxxxxxxxxxxxxxxxxxxxxxxxxxxxxxxxxxxxxxxxxxxxxxxxxxxxxxxxxxxxxxxxx")

Envelope(results, next) ==
    Map([k \in {"results", "next"} |-> IF k = "results" THEN results ELSE next])

\* what the service may answer to the p-th request for owned books
OwnedBodies(p) ==
    {NotJson, Str("oops"), Null}
    \cup {List(Items(p, n)) : n \in 0..MaxPage}
    \cup {Envelope(List(Items(p, n)), nx) :
            n \in 0..MaxPage, nx \in {Null, EmptyStr, Str("page-b"), Str("page-c")}}
    \cup {Map([k \in {"results"} |-> List(Items(p, 1))]),
          Map([k \in {"next"} |-> Str("page-b")]),
          Envelope(Str("oops"), Str("page-c")),
          Envelope(Str("oops"), Null)}

FailedAnswers == {NetError, Http(404, Null), Http(500, Null)}

OwnedAnswers(p) == FailedAnswers \cup {Http(200, d) : d \in OwnedBodies(p)}

ListSizes == {0, 1, ListLimit - 1, ListLimit, ListLimit + 1}

ListBodies(p) ==
    {NotJson, Str("oops")}
    \cup {List(Items(p, n)) : n \in ListSizes}
    \cup {Map([k \in {"results"} |-> List(Items(p, n))]) : n \in ListSizes}
    \cup {Map([k \in {"results"} |-> x]) : x \in {Null, Num(5), Str("oops"), LongStr}}
    \cup {Map([k \in {"count"} |-> Num(0)])}

ListAnswers(p) == FailedAnswers \cup {Http(200, d) : d \in ListBodies(p)}

\* the catalog of the user's lists: one request
CatalogBodies ==
    {NotJson, Str("oops"), EmptyList,
     List(<<Map([k \in {"id"} |-> Str("L1")]), Map([k \in {"id"} |-> Str("L2")])>>),
     Map([k \in {"results"} |-> List(<<Map([k2 \in {"id"} |-> Str("L1")])>>)]),
     Map([k \in {"results"} |-> Null]),
     Map([k \in {"count"} |-> Num(0)])}

CatalogAnswers == FailedAnswers \cup {Http(200, d) : d \in CatalogBodies}

BookIds == <<"A", "B", "C">>

\* the i-th review record of the page answered to the p-th page request
ReviewItem(kind, i, p) ==
    CASE kind = "good" ->
           Map([k \in {"book", "rating"} |->
                  IF k = "book" THEN Map([j \in {"id"} |-> Str(BookIds[(i % 3) + 1])])
                  ELSE Num(p)])
      [] kind = "noid" ->
           Map([k \in {"book", "rating"} |-> IF k = "book" THEN EmptyMap ELSE Num(p)])
      [] kind = "nullbook" ->
           Map([k \in {"book", "rating"} |-> IF k = "book" THEN Null ELSE Num(p)])
      [] kind = "scalar" -> Str("oops")

ReviewPage(kind, n, p) == [i \in 1..n |-> ReviewItem(kind, i, p)]

ReviewSizes == {0, 1, ReviewLimit - 1, ReviewLimit, ReviewLimit + 1}

ReviewBodies(p) ==
    {NotJson, Str("oops"), EmptyList, Map([k \in {"count"} |-> Num(0)]),
     Map([k \in {"results"} |-> Str("oops")])}
    \cup {Map([k \in {"results"} |-> List(ReviewPage(kind, n, p))]) :
            kind \in {"good", "noid"}, n \in ReviewSizes}
    \cup {Map([k \in {"results"} |-> List(ReviewPage(kind, 1, p))]) :
            kind \in {"nullbook", "scalar"}}

ReviewAnswers(p) == FailedAnswers \cup {Http(200, d) : d \in ReviewBodies(p)}

(*------------------------- the ways a call ends --------------------------*)
Raise(e) ==
    /\ pc' = "raised" /\ exc' = e
    /\ UNCHANGED <<url, offset, all_books, reviews_by_book, result>>

ReturnBooks(bs) ==
    /\ pc' = "returned" /\ result' = List(bs) /\ all_books' = bs
    /\ UNCHANGED <<exc, url, offset, reviews_by_book>>

ReturnValue(x) ==
    /\ pc' = "returned" /\ result' = x
    /\ UNCHANGED <<exc, url, offset, all_books, reviews_by_book>>

\* the start of every fetch operation: validate_credentials() raises
\* before anything is requested, or the loop is entered
Call(op) ==
    /\ call = "none"
    /\ call' = op
    /\ IF CredentialsValid(user_id, auth_token)
       THEN /\ pc' = "loop"
            /\ url' = (IF op = "owned" THEN Str(OwnedUrl) ELSE url)
            /\ UNCHANGED exc
       ELSE /\ pc' = "raised" /\ exc' = "FableAPIError"
            /\ UNCHANGED url
    /\ UNCHANGED <<offset, all_books, reviews_by_book, result, requests,
                   responses, user_id, auth_token, nvars, mvars, xvars>>

CallOwned == Call("owned")
CallLists == Call("lists")
CallListBooks == Call("list_books")
CallReviews == Call("reviews")

(*--------------------------- fetch_owned_books ---------------------------*)
\* a client that reads the cursor under another key
OwnedNextOtherKey(data) == IF IsDict(data) THEN Get(data, "next_page") ELSE Null

\* url = data.get("next") if isinstance(data, dict) else None
OwnedNext(data) == IF IsDict(data) THEN Get(data, "next") ELSE Null

\* all_books after the results of a mapping answer
ExtendWithResults(acc, data) ==
    LET results == GetD(data, "results", EmptyList)
    IN  IF IsList(results) THEN acc \o results.v ELSE acc

OwnedPage(resp) ==
    /\ call = "owned" /\ pc = "loop"
    /\ Len(requests) < MaxRequests
    /\ requests' = Append(requests, Request("owned", url.v, 0, 0))
    /\ responses' = Append(responses, resp)
    /\ IF HttpFails(resp) THEN Raise("FableAPIError")
       ELSE IF resp.data = NotJson THEN Raise("JSONDecodeError")
       ELSE IF IsList(resp.data) THEN ReturnBooks(all_books \o resp.data.v)
       ELSE IF IsDict(resp.data)
            THEN IF Truthy(OwnedNext(resp.data))
                 THEN /\ url' = OwnedNext(resp.data)
                      /\ all_books' = ExtendWithResults(all_books, resp.data)
                      /\ UNCHANGED <<pc, exc, offset, reviews_by_book, result>>
                 ELSE ReturnBooks(ExtendWithResults(all_books, resp.data))
       ELSE Raise("FableAPIError")
    /\ UNCHANGED <<call, user_id, auth_token, nvars, mvars, xvars>>

(*---------------------------- fetch_user_lists ---------------------------*)
ListsRequest(resp) ==
    /\ call = "lists" /\ pc = "loop"
    /\ requests' = Append(requests, Request("book_lists", "", 0, 0))
    /\ responses' = Append(responses, resp)
    /\ IF HttpFails(resp) THEN Raise("FableAPIError")
       ELSE IF resp.data = NotJson THEN Raise("JSONDecodeError")
       ELSE IF IsList(resp.data) THEN ReturnValue(resp.data)
       ELSE IF IsDict(resp.data)
            THEN ReturnValue(GetD(resp.data, "results", EmptyList))
       ELSE Raise("FableAPIError")
    /\ UNCHANGED <<call, user_id, auth_token, nvars, mvars, xvars>>

(*-------------------------- fetch_books_from_list ------------------------*)
\* a loop that also stops on a page of exactly `limit` results
ListPageIsLastStrict(results) ==
    ~Truthy(results) \/ PyLen(results) <= ListLimit

\* a loop that stops on an empty page only
ListPageIsLastEmptyOnly(results) == ~Truthy(results)

\* not results or len(results) < limit
ListPageIsLast(results) ==
    ~Truthy(results) \/ PyLen(results) < ListLimit

ListBooksPage(resp) ==
    /\ call = "list_books" /\ pc = "loop"
    /\ Len(requests) < MaxRequests
    /\ requests' = Append(requests, Request("list_books", "", offset, ListLimit))
    /\ responses' = Append(responses, resp)
    /\ IF HttpFails(resp) THEN Raise("FableAPIError")
       ELSE IF resp.data = NotJson THEN Raise("JSONDecodeError")
       ELSE IF IsList(resp.data) THEN ReturnBooks(all_books \o resp.data.v)
       ELSE IF IsDict(resp.data)
            THEN LET results == GetD(resp.data, "results", EmptyList) IN
                 IF Truthy(results) /\ ~HasLen(results) THEN Raise("TypeError")
                 ELSE IF ListPageIsLast(results)
                      THEN ReturnBooks(ExtendWithResults(all_books, resp.data))
                      ELSE /\ offset' = offset + ListLimit
                           /\ all_books' = ExtendWithResults(all_books, resp.data)
                           /\ UNCHANGED <<pc, exc, url, reviews_by_book, result>>
       ELSE Raise("FableAPIError")
    /\ UNCHANGED <<call, user_id, auth_token, nvars, mvars, xvars>>

(*--------------------------- fetch_user_reviews --------------------------*)
RECURSIVE FilePage(_, _)
\* reviews_by_book after the records of one page, in order
FilePage(lookup, page) ==
    IF page = <<>> THEN lookup
    ELSE FilePage(AddReview(lookup, Head(page)), Tail(page))

PageRaises(page) == \E i \in 1..Len(page) : ReviewRaises(page[i])

\* the exception of the first record that raises
PageException(page) ==
    LET i == CHOOSE j \in 1..Len(page) :
                 ReviewRaises(page[j]) /\ \A h \in 1..(j - 1) : ~ReviewRaises(page[h])
    IN  IF ~IsDict(page[i]) \/ ~IsDict(GetD(page[i], "book", EmptyMap))
        THEN "AttributeError" ELSE "TypeError"

\* a client that gives up its accumulated reviews on a failed request
ReviewsOnFailureEmpty(lookup) == EmptyMap

\* except requests.RequestException: return reviews_by_book
ReviewsOnFailure(lookup) == lookup

\* a client that falls back whenever the primary request fails
FallbackOnAnyFailure(r2) == r2.net = "error" \/ r2.status >= 400

\* if response.status_code == 404
Fallback(r2) == r2.net = "ok" /\ r2.status = 404

\* the answer to the page after the fallback: v1 is asked when v2 says 404
ReviewsPage(r2, r1) ==
    /\ call = "reviews" /\ pc = "loop"
    /\ Len(requests) < MaxRequests
    /\ LET fallback == Fallback(r2)
           resp == IF fallback THEN r1 ELSE r2
       IN
       /\ fallback \/ r1 = NetError
       /\ requests' =
            IF fallback
            THEN requests \o <<Request("reviews_v2", "", offset, ReviewLimit),
                               Request("reviews_v1", "", offset, ReviewLimit)>>
            ELSE Append(requests, Request("reviews_v2", "", offset, ReviewLimit))
       /\ responses' = IF fallback THEN responses \o <<r2, r1>> ELSE Append(responses, r2)
       /\ IF HttpFails(resp) THEN ReturnValue(ReviewsOnFailure(reviews_by_book))
          ELSE IF resp.data = NotJson THEN Raise("JSONDecodeError")
          ELSE IF ~IsDict(resp.data) THEN ReturnValue(reviews_by_book)
          ELSE LET results == GetD(resp.data, "results", EmptyList) IN
               IF ~IsList(results) \/ Len(results.v) = 0
               THEN ReturnValue(reviews_by_book)
               ELSE IF PageRaises(results.v) THEN Raise(PageException(results.v))
               ELSE IF Len(results.v) < ReviewLimit
                    THEN /\ pc' = "returned"
                         /\ reviews_by_book' = FilePage(reviews_by_book, results.v)
                         /\ result' = reviews_by_book'
                         /\ UNCHANGED <<exc, url, offset, all_books>>
                    ELSE /\ offset' = offset + ReviewLimit
                         /\ reviews_by_book' = FilePage(reviews_by_book, results.v)
                         /\ UNCHANGED <<pc, exc, url, all_books, result>>
    /\ UNCHANGED <<call, user_id, auth_token, nvars, mvars, xvars>>

(*--------------------------- the retrieval client ------------------------*)
Init ==
    /\ user_id \in {Null, EmptyStr, Str("u1")}
    /\ auth_token \in {Null, EmptyStr, Str("tok")}
    /\ FetchIdle
    /\ NormalizeIdle
    /\ MergeIdle
    /\ ExportIdle

Next ==
    \/ CallOwned
    \/ CallLists
    \/ CallListBooks
    \/ CallReviews
    \/ \E resp \in OwnedAnswers(Len(requests) + 1) : OwnedPage(resp)
    \/ \E resp \in CatalogAnswers : ListsRequest(resp)
    \/ \E resp \in ListAnswers(Len(requests) + 1) : ListBooksPage(resp)
    \/ \E r2 \in ReviewAnswers(Len(requests) + 1) :
         \E r1 \in ReviewAnswers(Len(requests) + 1) \cup {NetError} : ReviewsPage(r2, r1)

Spec == Init /\ [][Next]_vars

(*------------------ the pagination loops under a server ------------------*)
(* that signals completion.  The loops have no bound of their own: the     *)
(* server here answers as it likes until the request numbered MaxRequests, *)
(* which it answers with a failure or with a signal of completion.  Every  *)
(* turn of a loop is one blocking requests.get with timeout=10 followed by *)
(* straight-line code, so a turn that can be taken is taken (weak          *)
(* fairness).                                                              *)
\* the request failed: requests.get raised, or the status is an error
AnswerFails(r) == r.net = "error" \/ r.status >= 400

\* the books or reviews of an answered page: a bare list, or the list
\* under `results` of a mapping (none when the key is absent)
PageOf(r) ==
    IF r.data.t = "list" THEN r.data
    ELSE IF r.data.t = "map"
         THEN (IF "results" \in DOMAIN r.data.v THEN r.data.v.results ELSE EmptyList)
    ELSE Null

\* the server signals the end of the owned books: a bare list, or a
\* mapping with a null (or no) `next`
OwnedCompletes(r) ==
    \/ AnswerFails(r)
    \/ r.data.t = "list"
    \/ r.data.t = "map" /\ ("next" \in DOMAIN r.data.v => r.data.v.next = Null)

\* the server signals the end of an offset pagination: a page shorter
\* than the limit, the empty page included
ShortPage(r, limit) ==
    \/ AnswerFails(r)
    \/ PageOf(r).t = "list" /\ Len(PageOf(r).v) < limit

\* the n-th request is the last the server lets a loop make
LastTurn(n) == n >= MaxRequests

OwnedTurn ==
    \E resp \in OwnedAnswers(Len(requests) + 1) :
        /\ LastTurn(Len(requests) + 1) => OwnedCompletes(resp)
        /\ OwnedPage(resp)

ListBooksTurn ==
    \E resp \in ListAnswers(Len(requests) + 1) :
        /\ LastTurn(Len(requests) + 1) => ShortPage(resp, ListLimit)
        /\ ListBooksPage(resp)

\* a page of reviews takes two requests when v2 says 404, and the answer
\* that counts is then the one of v1
ReviewsTurn ==
    \E r2 \in ReviewAnswers(Len(requests) + 1) :
      \E r1 \in ReviewAnswers(Len(requests) + 1) \cup {NetError} :
        LET v1_asked == r2.net = "ok" /\ r2.status = 404 IN
        /\ LastTurn(Len(requests) + (IF v1_asked THEN 2 ELSE 1)) =>
              ShortPage(IF v1_asked THEN r1 ELSE r2, ReviewLimit)
        /\ ReviewsPage(r2, r1)

NextPaging ==
    \/ CallOwned
    \/ CallListBooks
    \/ CallReviews
    \/ OwnedTurn
    \/ ListBooksTurn
    \/ ReviewsTurn

SpecPaging ==
    /\ Init /\ [][NextPaging]_vars
    /\ WF_vars(OwnedTurn) /\ WF_vars(ListBooksTurn) /\ WF_vars(ReviewsTurn)

(***************************************************************************)
(* The exporters (exporters.py).  Texts are TLA+ strings; a file is the    *)
(* sequence of values written to it: the header and the rows of a CSV      *)
(* file, the objects of a JSON array, the lines of a Markdown file.        *)
(***************************************************************************)
\* the value float(x) gives for a whole number
Float(n) == [t |-> "float", v |-> n]

\* str(x), as an f-string and the csv writer render a value; the text of a
\* list or of a mapping is abridged
PyStr(x) ==
    CASE x.t = "null"  -> "None"
      [] x.t = "str"   -> x.v
      [] x.t = "num"   -> ToString(x.v)
      [] x.t = "float" -> ToString(x.v) \o ".0"
      [] x.t = "bool"  -> IF x.v THEN "True" ELSE "False"
      [] x.t = "list"  -> "[...]"
      [] x.t = "map"   -> "{...}"

RECURSIVE Join(_, _)
\* sep.join(xs) for a sequence of strings
Join(sep, xs) ==
    IF xs = <<>> THEN ""
    ELSE IF Len(xs) = 1 THEN Head(xs).v
    ELSE Head(xs).v \o sep \o Join(sep, Tail(xs))

\* sep.join(x) raises TypeError on a non-iterable and on a list holding a
\* non-string
JoinRaises(x) ==
    \/ x.t \notin {"list", "str", "map"}
    \/ IsList(x) /\ \E i \in 1..Len(x.v) : x.v[i].t # "str"

\* sep.join(x): the items of a list; a string of at most one character and
\* an empty mapping are their own join (no longer string and no populated
\* mapping stands under a joined key in this model)
JoinText(sep, x) ==
    CASE x.t = "list" -> Join(sep, x.v)
      [] x.t = "str" /\ Len(x.v) <= 1 -> x.v
      [] x.t = "map" /\ DOMAIN x.v = {} -> ""

(*--------------------------- format_authors_list -------------------------*)
AuthorName(author) ==
    IF IsDict(author) THEN GetD(author, "name", EmptyStr)
    ELSE IF author.t = "str" THEN author
    ELSE EmptyStr

AuthorNames(authors) ==
    SelectSeq([i \in 1..Len(authors.v) |-> AuthorName(authors.v[i])],
              LAMBDA name : Truthy(name))

\* ", ".join(author_names) raises TypeError on a truthy name that is no string
FormatAuthorsRaises(authors) ==
    /\ Truthy(authors) /\ IsList(authors)
    /\ JoinRaises(List(AuthorNames(authors)))

FormatAuthorsList(authors) ==
    IF ~Truthy(authors) \/ ~IsList(authors) THEN ""
    ELSE Join(", ", AuthorNames(authors))

(*------------------------------ extract_isbn -----------------------------*)
\* isbn.replace("-", "") for the ISBN texts of the model
Unhyphenated(s) ==
    CASE s = "978-0-13-468599-1" -> "9780134685991"
      [] s = "0-13-468599-X"     -> "013468599X"
      [] OTHER                   -> s

\* isbn.replace raises AttributeError on a truthy value that is no string
IsbnRaises(isbn) == Truthy(isbn) /\ isbn.t # "str"

\* <<isbn10, isbn13>>
ExtractIsbn(isbn) ==
    IF ~Truthy(isbn) THEN <<"", "">>
    ELSE LET normalized == Unhyphenated(isbn.v) IN
         IF Len(normalized) = 10 THEN <<normalized, "">>
         ELSE IF Len(normalized) = 13 THEN <<"", normalized>>
         ELSE <<normalized, "">>

(*------------------------------- format_date -----------------------------*)
\* strftime("%Y-%m-%d") of the ISO-8601 texts of the model; any other text
\* does not parse (ValueError, caught)
IsoDate(s) ==
    CASE s = "2023-05-01T12:00:00Z" -> "2023-05-01"
      [] s = "2024-02-03"           -> "2024-02-03"
      [] OTHER                      -> ""

\* a value without .replace ends in AttributeError, caught
FormatDate(date_str) ==
    IF ~Truthy(date_str) THEN ""
    ELSE IF date_str.t = "str" THEN IsoDate(date_str.v)
    ELSE ""

(*---------------------------- the file system ----------------------------*)
\* a path: the directory and the file name in it
Path(dir, name) == [dir |-> dir, name |-> name]

\* a file: the values written; complete is FALSE when the write was cut
File(kind, body, complete) == [kind |-> kind, body |-> body, complete |-> complete]

\* path.parent.mkdir(parents=True, exist_ok=True)
MkDir(fsys, dir) == [fsys EXCEPT !.dirs = @ \cup {dir}]

\* the file at path p is replaced by f (open(p, "w") and what follows)
WriteFile(fsys, p, f) ==
    [fsys EXCEPT !.files = [q \in DOMAIN @ \cup {p} |-> IF q = p THEN f ELSE @[q]]]

\* what one exporter call gives: the file system after it and how it ended
Exported(fsys, out) == [fs |-> fsys, out |-> out]

\* the faults the operating system may answer to a call of an exporter
Faults == {"none", "mkdir", "open", "write"}

\* an exporter that never refuses a book list
NothingToExportNever(bs) == FALSE

\* not books
NothingToExport(bs) == bs = <<>>

(*------------------------------ export_to_csv ----------------------------*)
fieldnames ==
    <<"Title", "Subtitle", "Author(s)", "ISBN-10", "ISBN-13", "Publisher",
      "Pages", "Published Date", "Genres", "Moods", "Content Warnings",
      "Status", "Rating", "Characters Rating", "Plot Rating",
      "Writing Style Rating", "Setting Rating", "Review",
      "Review Summary - Liked", "Review Summary - Disliked",
      "Review Summary - Disagreed", "Attributes/Tags", "Emoji Reaction",
      "Contains Spoilers", "Did Not Finish", "Started Reading",
      "Finished Reading", "Date Added">>

\* the cell the csv writer gives for a value: None is the empty cell
CsvCell(x) == IF x.t = "null" THEN "" ELSE PyStr(x)

\* a writer that leaves the cell of a missing value empty
YesNoOrEmpty(x) == IF x.t = "null" THEN "" ELSE IF Truthy(x) THEN "Yes" ELSE "No"

\* "Yes" if x else "No"
YesNo(x) == IF Truthy(x) THEN "Yes" ELSE "No"

\* the first exception of the row expression, "none" if it is evaluated
RowException(book) ==
    IF IsbnRaises(book.isbn) THEN "AttributeError"
    ELSE IF \/ FormatAuthorsRaises(book.authors)
            \/ JoinRaises(book.genres) \/ JoinRaises(book.moods)
            \/ JoinRaises(book.content_warnings) \/ JoinRaises(book.attributes)
         THEN "TypeError"
    ELSE "none"

\* the row of a canonical record: column -> cell
Row(book) ==
    LET isbn == ExtractIsbn(book.isbn) IN
    [c \in {fieldnames[i] : i \in 1..Len(fieldnames)} |->
       CASE c = "Title" -> CsvCell(book.title)
         [] c = "Subtitle" -> CsvCell(book.subtitle)
         [] c = "Author(s)" -> FormatAuthorsList(book.authors)
         [] c = "ISBN-10" -> isbn[1]
         [] c = "ISBN-13" -> isbn[2]
         [] c = "Publisher" -> CsvCell(book.imprint)
         [] c = "Pages" -> CsvCell(book.page_count)
         [] c = "Published Date" -> FormatDate(book.published_date)
         [] c = "Genres" -> JoinText("; ", book.genres)
         [] c = "Moods" -> JoinText("; ", book.moods)
         [] c = "Content Warnings" -> JoinText("; ", book.content_warnings)
         [] c = "Status" -> CsvCell(book.status)
         [] c = "Rating" -> CsvCell(book.rating)
         [] c = "Characters Rating" -> CsvCell(book.characters_rating)
         [] c = "Plot Rating" -> CsvCell(book.plot_rating)
         [] c = "Writing Style Rating" -> CsvCell(book.writing_style_rating)
         [] c = "Setting Rating" -> CsvCell(book.setting_rating)
         [] c = "Review" -> CsvCell(book.review)
         [] c = "Review Summary - Liked" -> CsvCell(book.review_summary_liked)
         [] c = "Review Summary - Disliked" -> CsvCell(book.review_summary_disliked)
         [] c = "Review Summary - Disagreed" -> CsvCell(book.review_summary_disagreed)
         [] c = "Attributes/Tags" -> JoinText("; ", book.attributes)
         [] c = "Emoji Reaction" -> CsvCell(book.emoji_reaction)
         [] c = "Contains Spoilers" -> YesNo(book.contains_spoilers)
         [] c = "Did Not Finish" -> YesNo(book.did_not_finish)
         [] c = "Started Reading" -> FormatDate(book.started_reading_at)
         [] c = "Finished Reading" -> FormatDate(book.finished_reading_at)
         [] c = "Date Added" ->
              \* the canonical record has no `created_at`
              FormatDate(Or2(Or2(book.review_created_at, book.added_at), Null))]

\* if book is None: continue
SkipNull(book) == book = Null

RECURSIVE CsvRows(_, _, _)
\* the loop over the books left: the rows written, and the exception that
\* ended the loop (NotRun when it ran to its end)
CsvRows(bs, rows, fault) ==
    IF bs = <<>> THEN [rows |-> rows, out |-> NotRun]
    ELSE IF SkipNull(Head(bs)) THEN CsvRows(Tail(bs), rows, fault)
    ELSE LET book == NormalizeBook(Head(bs)) IN
         IF book.st = "raised" THEN [rows |-> rows, out |-> book]
         ELSE IF RowException(book.rec) # "none"
              THEN [rows |-> rows, out |-> Raised(RowException(book.rec), 247)]
         ELSE IF fault = "write"
              THEN [rows |-> rows, out |-> Raised("OSError", 282)]
         ELSE CsvRows(Tail(bs), Append(rows, Row(book.rec)), fault)

ExportToCsv(bs, output_path, fsys, fault) ==
    IF NothingToExport(bs) THEN Exported(fsys, Raised("ValueError", 201))
    ELSE IF fault = "mkdir" THEN Exported(fsys, Raised("OSError", 234))
    ELSE LET made == MkDir(fsys, output_path.dir) IN
         IF fault = "open" THEN Exported(made, Raised("OSError", 236))
         ELSE LET loop == CsvRows(bs, <<>>, fault)
                  done == loop.out.st = "none"
                  body == <<fieldnames>> \o loop.rows
              IN  Exported(WriteFile(made, output_path, File("csv", body, done)),
                           IF done THEN Ok(output_path) ELSE loop.out)

(*------------------------------ export_to_json ---------------------------*)
\* float(x) of the numeric texts of the model
NumericTexts == {"0", "3", "5"}

TextValue(s) == CASE s = "0" -> 0 [] s = "3" -> 3 [] s = "5" -> 5

\* float(x) raises TypeError on a list or a mapping, ValueError on a text
\* that is no number
FloatException(x) ==
    IF x.t \in {"list", "map", "null"} THEN "TypeError"
    ELSE IF x.t = "str" /\ x.v \notin NumericTexts THEN "ValueError"
    ELSE "none"

PyFloat(x) ==
    CASE x.t = "num"   -> Float(x.v)
      [] x.t = "float" -> x
      [] x.t = "bool"  -> Float(IF x.v THEN 1 ELSE 0)
      [] x.t = "str"   -> Float(TextValue(x.v))

\* float(x) if x else None
FloatOrNone(x) == IF Truthy(x) THEN PyFloat(x) ELSE Null

RatingKeys ==
    <<"rating", "characters_rating", "plot_rating", "writing_style_rating",
      "setting_rating">>

\* the first exception of the clean_book expression, "none" if it is evaluated
CleanException(book) ==
    IF IsbnRaises(book.isbn) THEN "AttributeError"
    ELSE IF FormatAuthorsRaises(book.authors) THEN "TypeError"
    ELSE IF \E i \in 1..Len(RatingKeys) :
              Truthy(book[RatingKeys[i]]) /\ FloatException(book[RatingKeys[i]]) # "none"
         THEN LET i == CHOOSE j \in 1..Len(RatingKeys) :
                         /\ Truthy(book[RatingKeys[j]])
                         /\ FloatException(book[RatingKeys[j]]) # "none"
                         /\ \A h \in 1..(j - 1) :
                              ~Truthy(book[RatingKeys[h]])
                              \/ FloatException(book[RatingKeys[h]]) = "none"
              IN  FloatException(book[RatingKeys[i]])
    ELSE "none"

CleanKeys ==
    {"title", "subtitle", "authors", "isbn10", "isbn13", "publisher", "pages",
     "published_date", "description", "cover_image", "genres", "moods",
     "content_warnings", "status", "rating", "detailed_ratings", "review",
     "review_summary", "contains_spoilers", "did_not_finish", "attributes",
     "emoji_reaction", "spicy_level", "started_reading", "finished_reading",
     "current_page", "total_pages", "date_added"}

\* clean_book of a canonical record
CleanBook(book) ==
    LET isbn == ExtractIsbn(book.isbn) IN
    Map([k \in CleanKeys |->
       CASE k = "authors" -> Str(FormatAuthorsList(book.authors))
         [] k = "isbn10" -> Str(isbn[1])
         [] k = "isbn13" -> Str(isbn[2])
         [] k = "publisher" -> book.imprint
         [] k = "pages" -> book.page_count
         [] k = "published_date" -> Str(FormatDate(book.published_date))
         [] k = "rating" -> FloatOrNone(book.rating)
         [] k = "detailed_ratings" ->
              Map([j \in {"characters", "plot", "writing_style", "setting"} |->
                     CASE j = "characters" -> FloatOrNone(book.characters_rating)
                       [] j = "plot" -> FloatOrNone(book.plot_rating)
                       [] j = "writing_style" -> FloatOrNone(book.writing_style_rating)
                       [] j = "setting" -> FloatOrNone(book.setting_rating)])
         [] k = "review_summary" ->
              Map([j \in {"liked", "disliked", "disagreed"} |->
                     CASE j = "liked" -> book.review_summary_liked
                       [] j = "disliked" -> book.review_summary_disliked
                       [] j = "disagreed" -> book.review_summary_disagreed])
         [] k = "started_reading" -> Str(FormatDate(book.started_reading_at))
         [] k = "finished_reading" -> Str(FormatDate(book.finished_reading_at))
         [] k = "date_added" ->
              Str(FormatDate(Or2(Or2(book.review_created_at, book.added_at), Null)))
         [] OTHER -> book[k]])

RECURSIVE CleanBooks(_, _)
\* the loop building clean_books: the objects built, and the exception
\* that ended the loop (NotRun when it ran to its end)
CleanBooks(bs, clean_books) ==
    IF bs = <<>> THEN [clean_books |-> clean_books, out |-> NotRun]
    ELSE IF SkipNull(Head(bs)) THEN CleanBooks(Tail(bs), clean_books)
    ELSE LET book == NormalizeBook(Head(bs)) IN
         IF book.st = "raised" THEN [clean_books |-> clean_books, out |-> book]
         ELSE IF CleanException(book.rec) # "none"
              THEN [clean_books |-> clean_books,
                    out |-> Raised(CleanException(book.rec), 314)]
         ELSE CleanBooks(Tail(bs), Append(clean_books, CleanBook(book.rec)))

\* json.dump(..., default=str) writes any value; the file holds the array
ExportToJson(bs, output_path, fsys, fault) ==
    IF NothingToExport(bs) THEN Exported(fsys, Raised("ValueError", 301))
    ELSE IF fault = "mkdir" THEN Exported(fsys, Raised("OSError", 303))
    ELSE LET made == MkDir(fsys, output_path.dir)
             loop == CleanBooks(bs, <<>>)
         IN  IF loop.out.st # "none" THEN Exported(made, loop.out)
             ELSE IF fault = "open" THEN Exported(made, Raised("OSError", 359))
             ELSE IF fault = "write"
                  THEN Exported(WriteFile(made, output_path, File("json", <<>>, FALSE)),
                                Raised("OSError", 360))
             ELSE Exported(WriteFile(made, output_path,
                                     File("json", loop.clean_books, TRUE)),
                           Ok(output_path))

(*---------------------------- export_to_markdown -------------------------*)
status_order == <<"finished", "reading", "unread">>

status_labels(status) ==
    CASE status = "finished" -> "Finished"
      [] status = "reading"  -> "Currently Reading"
      [] status = "unread"   -> "Want to Read"

RECURSIVE ByStatus(_, _)
\* the grouping loop: the canonical records of the books grouped so far,
\* in input order, and the exception that ended the loop (NotRun when it
\* ran to its end); an unhashable status cannot be a key of by_status
ByStatus(bs, recs) ==
    IF bs = <<>> THEN [recs |-> recs, out |-> NotRun]
    ELSE IF SkipNull(Head(bs)) THEN ByStatus(Tail(bs), recs)
    ELSE LET book == NormalizeBook(Head(bs)) IN
         IF book.st = "raised" THEN [recs |-> recs, out |-> book]
         ELSE IF ~Hashable(book.rec.status)
              THEN [recs |-> recs, out |-> Raised("TypeError", 397)]
         ELSE ByStatus(Tail(bs), Append(recs, book.rec))

\* a grouping that puts the book grouped last first
GroupNewestFirst(recs, status) ==
    LET group == SelectSeq(recs, LAMBDA book : book.status = Str(status))
    IN  [i \in 1..Len(group) |-> group[Len(group) + 1 - i]]

\* by_status[status]: the records of that status, in the order grouped
Group(recs, status) == SelectSeq(recs, LAMBDA book : book.status = Str(status))

\* the first exception of the rendering of one book, "none" if there is none
RenderException(book) ==
    IF \/ FormatAuthorsRaises(book.authors)
       \/ Truthy(book.genres) /\ JoinRaises(book.genres)
       \/ Truthy(book.moods) /\ JoinRaises(book.moods)
       \/ Truthy(book.attributes) /\ JoinRaises(book.attributes)
    THEN "TypeError"
    ELSE "none"

\* the line f"- {label}: {rating}/5\n" of a truthy detailed rating
RatingLine(label, rating) ==
    IF Truthy(rating) THEN <<"- " \o label \o ": " \o PyStr(rating) \o "/5\n">>
    ELSE <<>>

\* the heading of a book
TitleLine(book) == "### " \o PyStr(book.title) \o "\n"

\* the lines rendered for one book
BookLines(book) ==
    LET authors == FormatAuthorsList(book.authors)
        started == FormatDate(book.started_reading_at)
        finished == FormatDate(book.finished_reading_at)
        emoji_str == IF Truthy(book.emoji_reaction)
                     THEN " " \o PyStr(book.emoji_reaction) ELSE ""
        has_detailed_ratings ==
            \/ Truthy(book.characters_rating) \/ Truthy(book.plot_rating)
            \/ Truthy(book.writing_style_rating) \/ Truthy(book.setting_rating)
    IN
    <<TitleLine(book)>>
    \o (IF Truthy(book.subtitle) THEN <<"*" \o PyStr(book.subtitle) \o "*\n\n">> ELSE <<>>)
    \o (IF authors # "" THEN <<"**Author(s):** " \o authors \o "\n">> ELSE <<>>)
    \o (IF Truthy(book.rating)
        THEN <<"**Rating:** " \o PyStr(book.rating) \o "/5" \o emoji_str \o "\n">>
        ELSE <<>>)
    \o (IF has_detailed_ratings
        THEN <<"**Detailed Ratings:**\n">>
             \o RatingLine("Characters", book.characters_rating)
             \o RatingLine("Plot", book.plot_rating)
             \o RatingLine("Writing Style", book.writing_style_rating)
             \o RatingLine("Setting", book.setting_rating)
        ELSE <<>>)
    \o (IF Truthy(book.genres)
        THEN <<"**Genres:** " \o JoinText(", ", book.genres) \o "\n">> ELSE <<>>)
    \o (IF Truthy(book.moods)
        THEN <<"**Moods:** " \o JoinText(", ", book.moods) \o "\n">> ELSE <<>>)
    \o (IF Truthy(book.attributes)
        THEN <<"**Tags:** " \o JoinText(", ", book.attributes) \o "\n">> ELSE <<>>)
    \o (IF started # "" \/ finished # ""
        THEN <<"**Read Dates:** ">>
             \o (IF started # "" THEN <<"Started " \o started>> ELSE <<>>)
             \o (IF finished # ""
                 THEN IF started # "" THEN <<" → Finished " \o finished>>
                      ELSE <<"Finished " \o finished>>
                 ELSE <<>>)
             \o <<"\n">>
        ELSE <<>>)
    \o (IF Truthy(book.review)
        THEN <<"\n**Review:**\n\n" \o PyStr(book.review) \o "\n">> ELSE <<>>)
    \o <<"\n---\n">>

RECURSIVE LinesOf(_)
LinesOf(recs) == IF recs = <<>> THEN <<>> ELSE BookLines(Head(recs)) \o LinesOf(Tail(recs))

\* the heading of a section
SectionLine(status_title, n) == "\n## " \o status_title \o " (" \o ToString(n) \o ")\n"

\* the lines of the section of one status of status_order: none when no
\* book has the status
Section(recs, status) ==
    LET group == Group(recs, status) IN
    IF group = <<>> THEN <<>>
    ELSE <<SectionLine(status_labels(status), Len(group))>> \o LinesOf(group)

\* the lines before the sections; len(books) counts every entry
Preamble(bs, now) ==
    <<"# My Fable Book Library\n", "Exported on: " \o now \o "\n",
      "Total books: " \o ToString(Len(bs)) \o "\n", "\n---\n">>

\* the records rendered, in the order rendered: only the statuses of
\* status_order are visited
Rendered(recs) ==
    Group(recs, status_order[1]) \o Group(recs, status_order[2])
    \o Group(recs, status_order[3])

\* what the clock reads when the export starts
Clock == {"2026-01-01 09:00:00"}

ExportToMarkdown(bs, output_path, fsys, fault, now) ==
    IF NothingToExport(bs) THEN Exported(fsys, Raised("ValueError", 379))
    ELSE IF fault = "mkdir" THEN Exported(fsys, Raised("OSError", 381))
    ELSE LET made == MkDir(fsys, output_path.dir)
             loop == ByStatus(bs, <<>>)
             recs == loop.recs
             lines == Preamble(bs, now) \o Section(recs, status_order[1])
                      \o Section(recs, status_order[2])
                      \o Section(recs, status_order[3])
         IN  IF loop.out.st # "none" THEN Exported(made, loop.out)
             ELSE IF \E i \in 1..Len(Rendered(recs)) :
                        RenderException(Rendered(recs)[i]) # "none"
                  THEN Exported(made, Raised("TypeError", 416))
             ELSE IF fault = "open" THEN Exported(made, Raised("OSError", 482))
             ELSE IF fault = "write"
                  THEN Exported(WriteFile(made, output_path, File("md", <<>>, FALSE)),
                                Raised("OSError", 483))
             ELSE Exported(WriteFile(made, output_path, File("md", lines, TRUE)),
                           Ok(output_path))

(***************************************************************************)
(* The exporters called on a book list: the list is built entry by entry   *)
(* from records as the merger hands them over, then one exporter is called.*)
(***************************************************************************)
ExportEntries ==
    {Null, EmptyMap,
     Map([id |-> Str("A"), title |-> Str("Alpha"), status |-> Str("finished"),
          rating |-> Num(4), contains_spoilers |-> Bool(TRUE),
          did_not_finish |-> Bool(FALSE)]),
     Map([id |-> Str("B"), title |-> Str("Beta"), status |-> Str("reading"),
          rating |-> Num(0), did_not_finish |-> Bool(TRUE)]),
     Map([title |-> Str("Gamma"), status |-> Str("unread")]),
     Map([title |-> Str("Delta"), status |-> Str("finished"), rating |-> Str("5"),
          characters_rating |-> Num(3), plot_rating |-> Num(0)]),
     Map([title |-> Str("Epsilon"), status |-> Str("abandoned"), rating |-> Num(3)]),
     Map([title |-> Str("Zeta"), rating |-> Num(2)]),
     Map([title |-> Str("Eta"), status |-> Str("reading"), emoji |-> Str("x")]),
     Map([title |-> Str("Iota"), status |-> Str("unread"), rating |-> Str("n/a")]),
     Map([book |-> Map([title |-> Str("Theta"), isbn |-> Str("978-0-13-468599-1"),
                        authors |-> List(<<Map([name |-> Str("A. Author")])>>),
                        genres |-> List(<<Map([name |-> Str("Fantasy")]),
                                          Map([name |-> Str("Epic")])>>),
                        published_date |-> Str("2023-05-01T12:00:00Z"),
                        reading_progress |-> Map([status |-> Str("finished")])]),
          rating |-> Num(5), review |-> Str("Loved it"),
          contains_spoilers |-> Bool(FALSE)])}

\* the output path handed to each exporter
OutputPath(fmt) == Path("out", "books." \o fmt)

\* a file an earlier export left at the path
OldFile == File("old", <<>>, TRUE)

\* the file system before the call: empty, the directory alone, or the
\* directory holding a file at each output path
FsBefore ==
    {EmptyFs,
     [dirs |-> {"out"}, files |-> [p \in {} |-> Null]],
     [dirs |-> {"out"},
      files |-> [p \in {OutputPath(fmt) : fmt \in {"csv", "json", "md"}} |->
                   OldFile]]}

\* one call of an exporter, as the log keeps it
Written(fmt, path, bs, out) == [fmt |-> fmt, path |-> path, books |-> bs, out |-> out]

InitWrite ==
    /\ fs \in FsBefore
    /\ separate_lists = FALSE /\ formats = <<>> /\ stage = "idle"
    /\ exit_status = -1 /\ escaped = "none" /\ fetches = <<>>
    /\ run_reviews = EmptyMap /\ lists = <<>> /\ gathered = <<>>
    /\ to_export = <<>> /\ safe_name = "" /\ pending = <<>>
    /\ writes = <<>> /\ warnings = <<>>
    /\ NormalizeIdle /\ MergeIdle /\ NoCredentials /\ FetchIdle

AddEntry(b) ==
    /\ stage = "idle" /\ writes = <<>>
    /\ Len(to_export) < MaxEntries
    /\ to_export' = Append(to_export, b)
    /\ UNCHANGED <<separate_lists, formats, stage, exit_status, escaped, fetches,
                   run_reviews, lists, gathered, safe_name, pending, fs, writes,
                   warnings, nvars, mvars, fvars>>

\* the exporter of format fmt called on bs at path
Export(fmt, bs, path, fsys, fault, now) ==
    CASE fmt = "csv"  -> ExportToCsv(bs, path, fsys, fault)
      [] fmt = "json" -> ExportToJson(bs, path, fsys, fault)
      [] fmt = "md"   -> ExportToMarkdown(bs, path, fsys, fault, now)

CallExporter(fmt, fault, now) ==
    /\ stage = "idle" /\ writes = <<>>
    /\ LET r == Export(fmt, to_export, OutputPath(fmt), fs, fault, now) IN
       /\ fs' = r.fs
       /\ writes' = Append(writes, Written(fmt, OutputPath(fmt), to_export, r.out))
    /\ UNCHANGED <<separate_lists, formats, stage, exit_status, escaped, fetches,
                   run_reviews, lists, gathered, to_export, safe_name, pending,
                   warnings, nvars, mvars, fvars>>

CallExportToCsv == \E fault \in Faults : CallExporter("csv", fault, "")
CallExportToJson == \E fault \in Faults : CallExporter("json", fault, "")
CallExportToMarkdown ==
    \E fault \in Faults : \E now \in Clock : CallExporter("md", fault, now)

NextWrite ==
    \/ \E b \in ExportEntries : AddEntry(b)
    \/ CallExportToCsv
    \/ CallExportToJson
    \/ CallExportToMarkdown

SpecWrite == InitWrite /\ [][NextWrite]_vars

(***************************************************************************)
(* The export run: export_books (cli.py) and, inside the combined run,     *)
(* fetch_all_books (fable_api.py).  Each fetch operation the run calls     *)
(* ends in one of the ways the retrieval client above ends: it returns a   *)
(* value, or it raises FableAPIError, or another exception escapes it      *)
(* (JSONDecodeError of response.json(), TypeError of len(results)).        *)
(***************************************************************************)
Returned(x) == [st |-> "returned", val |-> x, via |-> "answer"]
Threw(e) == [st |-> "raised", exc |-> e]

\* fetch_user_reviews gives up on a request that fails (RequestException)
\* and returns the reviews it has so far
GaveUp(x) == [st |-> "returned", val |-> x, via |-> "transport failure"]

\* a handler that lets every exception pass
ExceptNothing(e) == FALSE

\* except FableAPIError
ExceptFableAPIError(e) == e = "FableAPIError"

\* one call of a fetch operation, as the log keeps it
Fetched(op, arg, out) == [op |-> op, arg |-> arg, out |-> out]

\* one diagnostic printed for a failure the run went on after
Warning(about, arg) == [about |-> about, arg |-> arg]

BookA == Map([id |-> Str("A"), title |-> Str("Alpha"), status |-> Str("finished")])
BookB == Map([id |-> Str("B"), title |-> Str("Beta"), status |-> Str("abandoned")])

\* a book held by the list list_id only
ListBook(list_id) ==
    Map([id |-> Str("C"), title |-> Str("In " \o PyStr(list_id)),
         status |-> Str("reading")])

\* the ways fetch_user_reviews ends when the credentials are valid
ReviewOutcomes ==
    {Returned(EmptyMap), GaveUp(EmptyMap),
     Returned(Map([k \in {"A"} |-> Map([rating |-> Num(5), review |-> Str("fine")])])),
     Threw("JSONDecodeError")}

\* the ways fetch_owned_books ends
OwnedOutcomes ==
    {Returned(<<>>), Returned(<<BookA, BookB>>),
     Threw("FableAPIError"), Threw("JSONDecodeError")}

\* the entries of the list catalog: two names that sanitize to one file
\* name, an entry without `id`, an entry with a null name
ListOne == Map([id |-> Str("L1"), name |-> Str("Sci-Fi/Fantasy")])
ListTwo == Map([id |-> Str("L2"), name |-> Str("Sci-Fi Fantasy")])
ListThree == Map([id |-> Str("L3"), name |-> Str("Read")])
ListNoId == Map([name |-> Str("Drafts")])
ListNullName == Map([id |-> Str("L4"), name |-> Null])

\* the ways fetch_user_lists ends: the value under `results` is returned
\* as it is, whatever its type
CatalogOutcomes ==
    {Returned(List(<<ListOne, ListTwo>>)), Returned(List(<<ListOne, ListThree>>)),
     Returned(List(<<ListNoId, ListThree>>)), Returned(List(<<Str("x"), ListThree>>)),
     Returned(List(<<ListNullName, ListThree>>)), Returned(EmptyList),
     Returned(Null), Threw("FableAPIError"), Threw("JSONDecodeError")}

\* the ways fetch_books_from_list(list_id) ends
ListOutcomes(list_id) ==
    {Returned(<<ListBook(list_id)>>), Returned(<<BookA, Null>>), Returned(<<>>),
     Threw("FableAPIError"), Threw("TypeError")}

\* the formats select_export_formats may give, in its fixed order
FormatChoices == {<<"csv">>, <<"json", "md">>, <<"csv", "json", "md">>}

output_dir == "exports"

\* "".join(c if c.isalnum() or c in (' ', '-', '_') else '_' ...) followed
\* by replace(' ', '_'), for the list names of the model
Sanitized(list_name) ==
    CASE list_name = "Sci-Fi/Fantasy" -> "Sci-Fi_Fantasy"
      [] list_name = "Sci-Fi Fantasy" -> "Sci-Fi_Fantasy"
      [] OTHER                        -> list_name

\* iterating list_name raises TypeError when it is no text
SanitizeRaises(list_name) == list_name.t # "str"

\* the path of the file of one format of one unit
UnitPath(name, fmt) == Path(output_dir, name \o "." \o fmt)

InitExport ==
    /\ user_id \in {Null, Str("u1")}
    /\ auth_token \in {Null, Str("tok")}
    /\ separate_lists \in BOOLEAN
    /\ formats \in FormatChoices
    /\ stage = "idle" /\ exit_status = -1 /\ escaped = "none"
    /\ fetches = <<>> /\ run_reviews = EmptyMap /\ lists = <<>>
    /\ gathered = <<>> /\ to_export = <<>> /\ safe_name = ""
    /\ pending = <<>> /\ fs = EmptyFs /\ writes = <<>> /\ warnings = <<>>
    /\ FetchIdle /\ NormalizeIdle /\ MergeIdle

\* an exception no handler of the run catches: the interpreter ends with
\* status 1
Abort(e) ==
    /\ stage' = "done" /\ exit_status' = 1 /\ escaped' = e

\* print the error and sys.exit(1)
Exit1 ==
    /\ stage' = "done" /\ exit_status' = 1 /\ escaped' = "SystemExit"

\* export_books is called: the output directory is made
ExportBooks ==
    /\ stage = "idle"
    /\ stage' = "reviews"
    /\ fs' = MkDir(fs, output_dir)
    /\ UNCHANGED <<separate_lists, formats, exit_status, escaped, fetches,
                   run_reviews, lists, gathered, to_export, safe_name, pending,
                   writes, warnings, nvars, mvars, fvars>>

\* reviews = fetch_user_reviews(), outside any handler
FetchReviews(out) ==
    /\ stage = "reviews"
    /\ IF ~CredentialsValid(user_id, auth_token)
       THEN /\ fetches' = Append(fetches, Fetched("reviews", Null, Threw("FableAPIError")))
            /\ Abort("FableAPIError")
            /\ UNCHANGED run_reviews
       ELSE /\ fetches' = Append(fetches, Fetched("reviews", Null, out))
            /\ IF out.st = "returned"
               THEN /\ run_reviews' = out.val
                    /\ stage' = (IF separate_lists THEN "catalog" ELSE "owned")
                    /\ UNCHANGED <<exit_status, escaped>>
               ELSE /\ Abort(out.exc)
                    /\ UNCHANGED run_reviews
    /\ UNCHANGED <<separate_lists, formats, lists, gathered, to_export, safe_name,
                   pending, fs, writes, warnings, nvars, mvars, fvars>>

(*----------------------------- fetch_all_books ---------------------------*)
\* owned = fetch_owned_books(); all_books.extend(owned): only FableAPIError
\* is caught
FetchOwned(out) ==
    /\ stage = "owned"
    /\ fetches' = Append(fetches, Fetched("owned", Null, out))
    /\ IF out.st = "returned"
       THEN /\ gathered' = gathered \o out.val
            /\ stage' = "catalog"
            /\ UNCHANGED <<warnings, exit_status, escaped>>
       ELSE IF ExceptFableAPIError(out.exc)
       THEN /\ warnings' = Append(warnings, Warning("owned", Null))
            /\ stage' = "catalog"
            /\ UNCHANGED <<gathered, exit_status, escaped>>
       ELSE /\ Abort(out.exc)
            /\ UNCHANGED <<gathered, warnings>>
    /\ UNCHANGED <<separate_lists, formats, run_reviews, lists, to_export,
                   safe_name, pending, fs, writes, nvars, mvars, fvars>>

\* what `for book_list in lists` visits: the elements of a list; of a text
\* or a mapping, its characters or keys, each a text
ItemsOf(x) == IF IsList(x) THEN x.v ELSE [i \in 1..PyLen(x) |-> EmptyStr]

\* lists = fetch_user_lists(), in fetch_all_books (combined run) and in
\* export_books (run per list, which exits on FableAPIError); len(lists)
\* and the loop raise TypeError on a value that is no collection
FetchCatalog(out) ==
    /\ stage = "catalog"
    /\ fetches' = Append(fetches, Fetched("lists", Null, out))
    /\ IF out.st = "raised"
       THEN IF ExceptFableAPIError(out.exc)
            THEN IF separate_lists
                 THEN /\ Exit1
                      /\ UNCHANGED <<lists, warnings>>
                 ELSE /\ warnings' = Append(warnings, Warning("lists", Null))
                      /\ stage' = "lists"
                      /\ UNCHANGED <<lists, exit_status, escaped>>
            ELSE /\ Abort(out.exc)
                 /\ UNCHANGED <<lists, warnings>>
       ELSE IF ~Iterable(out.val)
       THEN /\ Abort("TypeError")
            /\ UNCHANGED <<lists, warnings>>
       ELSE /\ lists' = ItemsOf(out.val)
            /\ stage' = "lists"
            /\ UNCHANGED <<warnings, exit_status, escaped>>
    /\ UNCHANGED <<separate_lists, formats, run_reviews, gathered, to_export,
                   safe_name, pending, fs, writes, nvars, mvars, fvars>>

\* [b for b in books if b is not None and isinstance(b, dict)]
MappingsOnly(bs) == SelectSeq(bs, LAMBDA b : b # Null /\ IsDict(b))

\* [b for b in books if b is not None]
NonNull(bs) == SelectSeq(bs, LAMBDA b : b # Null)

\* the body of the loop over the catalog, for its next entry.  Combined
\* run: an entry without `id` is passed over, FableAPIError of the fetch is
\* a warning.  Run per list: every entry is fetched, any exception of the
\* fetch or of the naming of the file is reported and the list is skipped;
\* a list with books goes on to its formats.
VisitList ==
    /\ stage = "lists" /\ lists # <<>>
    /\ LET book_list == Head(lists) IN
       IF ~IsDict(book_list)
       THEN /\ Abort("AttributeError")
            /\ UNCHANGED <<fetches, lists, gathered, to_export, safe_name,
                           pending, warnings>>
       ELSE LET list_id == Get(book_list, "id")
                list_name == GetD(book_list, "name", Str("Unknown"))
            IN
            IF ~separate_lists /\ ~Truthy(list_id)
            THEN /\ lists' = Tail(lists)
                 /\ UNCHANGED <<fetches, gathered, to_export, safe_name, pending,
                                warnings, stage, exit_status, escaped>>
            ELSE \E out \in ListOutcomes(list_id) :
                 /\ fetches' = Append(fetches, Fetched("list_books", list_id, out))
                 /\ IF ~separate_lists
                    THEN IF out.st = "returned"
                         THEN /\ gathered' = gathered \o out.val
                              /\ lists' = Tail(lists)
                              /\ UNCHANGED <<to_export, safe_name, pending, warnings,
                                             stage, exit_status, escaped>>
                         ELSE IF ExceptFableAPIError(out.exc)
                         THEN /\ warnings' = Append(warnings, Warning("list", list_id))
                              /\ lists' = Tail(lists)
                              /\ UNCHANGED <<gathered, to_export, safe_name, pending,
                                             stage, exit_status, escaped>>
                         ELSE /\ Abort(out.exc)
                              /\ UNCHANGED <<lists, gathered, to_export, safe_name,
                                             pending, warnings>>
                    ELSE /\ lists' = Tail(lists)
                         /\ UNCHANGED <<gathered, exit_status, escaped>>
                         /\ IF out.st = "raised"
                            THEN /\ warnings' = Append(warnings, Warning("list", list_id))
                                 /\ UNCHANGED <<to_export, safe_name, pending, stage>>
                            ELSE LET bs == MergeReviewsWithBooks(MappingsOnly(out.val),
                                                                 run_reviews)
                                 IN  IF bs = <<>>
                                     THEN UNCHANGED <<to_export, safe_name, pending,
                                                      stage, warnings>>
                                     ELSE IF SanitizeRaises(list_name)
                                     THEN /\ warnings' =
                                               Append(warnings, Warning("list", list_id))
                                          /\ UNCHANGED <<to_export, safe_name,
                                                         pending, stage>>
                                     ELSE /\ to_export' = bs
                                          /\ safe_name' = Sanitized(list_name.v)
                                          /\ pending' = formats
                                          /\ stage' = "formats"
                                          /\ UNCHANGED warnings
    /\ UNCHANGED <<separate_lists, formats, run_reviews, fs, writes, nvars, mvars,
                   fvars>>

\* the loop over the catalog is over.  Combined run: fetch_all_books
\* returns all_books; the null entries are dropped, the reviews merged, and
\* the run returns when no book is left.  Run per list: the run is complete.
FinishFetch ==
    /\ stage = "lists" /\ lists = <<>>
    /\ IF separate_lists
       THEN /\ stage' = "done" /\ exit_status' = 0
            /\ UNCHANGED <<to_export, safe_name, pending>>
       ELSE LET bs == MergeReviewsWithBooks(NonNull(gathered), run_reviews) IN
            IF bs = <<>>
            THEN /\ stage' = "done" /\ exit_status' = 0
                 /\ UNCHANGED <<to_export, safe_name, pending>>
            ELSE /\ to_export' = bs
                 /\ safe_name' = "fable_books"
                 /\ pending' = formats
                 /\ stage' = "formats"
                 /\ UNCHANGED exit_status
    /\ UNCHANGED <<separate_lists, formats, escaped, fetches, run_reviews, lists,
                   gathered, fs, writes, warnings, nvars, mvars, fvars>>

\* the body of the loop over the formats: the exporter is called and any
\* exception of it is reported
WriteFormat(fault, now) ==
    /\ stage = "formats" /\ pending # <<>>
    /\ LET fmt == Head(pending)
           path == UnitPath(safe_name, fmt)
           r == Export(fmt, to_export, path, fs, fault, now)
       IN  /\ fs' = r.fs
           /\ writes' = Append(writes, Written(fmt, path, to_export, r.out))
           /\ warnings' = IF r.out.st = "raised"
                          THEN Append(warnings, Warning("format", Str(fmt)))
                          ELSE warnings
    /\ pending' = Tail(pending)
    /\ UNCHANGED <<separate_lists, formats, stage, exit_status, escaped, fetches,
                   run_reviews, lists, gathered, to_export, safe_name, nvars,
                   mvars, fvars>>

\* the loop over the formats is over: the next list, or the end of the run
FinishUnit ==
    /\ stage = "formats" /\ pending = <<>>
    /\ IF separate_lists
       THEN stage' = "lists" /\ UNCHANGED exit_status
       ELSE stage' = "done" /\ exit_status' = 0
    /\ UNCHANGED <<separate_lists, formats, escaped, fetches, run_reviews, lists,
                   gathered, to_export, safe_name, pending, fs, writes, warnings,
                   nvars, mvars, fvars>>

\* the faults of a write into the output directory, which exists
RunFaults == {"none", "open", "write"}

NextExport ==
    \/ ExportBooks
    \/ \E out \in ReviewOutcomes : FetchReviews(out)
    \/ \E out \in OwnedOutcomes : FetchOwned(out)
    \/ \E out \in CatalogOutcomes : FetchCatalog(out)
    \/ VisitList
    \/ FinishFetch
    \/ \E fault \in RunFaults : \E now \in Clock : WriteFormat(fault, now)
    \/ FinishUnit

SpecExport == InitExport /\ [][NextExport]_vars

(***************************************************************************)
(* Claims about normalize_book, checked under SpecNormalize.               *)
(***************************************************************************)
Normalized == canon.st # "none"

Nested == Get(raw, "book")

\* C1: for every raw input (null, non-mapping, empty mapping, flat mapping,
\* mapping wrapping the payload under `book`) normalize_book returns a
\* record, and the key set of the record is the same for all inputs.
C1_NormalizeTotal ==
    Normalized =>
        /\ canon.st = "ok"
        /\ DOMAIN canon.rec = DOMAIN DefaultRecord

\* the sub-value under key k of the record the extractions read is absent
\* or present with a non-mapping type
AbsentOrNonMapping(k) ==
    /\ IsDict(raw) /\ Truthy(raw)
    /\ ~IsDict(Get(BookData(raw), k))

Empty(x) == ~Truthy(x)

\* C2: when storygraph_tags, review_summary or reading_progress is absent
\* or not a mapping, the extraction of that sub-value does not fail and the
\* fields derived from it take their empty defaults (status falling back to
\* the outer status), whatever the other two sub-values are.
C2_SubMappingDefaults ==
    Normalized =>
        /\ AbsentOrNonMapping("storygraph_tags") =>
             /\ canon.st = "ok" =>
                  /\ Empty(canon.rec.moods)
                  /\ Empty(canon.rec.content_warnings)
                  /\ Empty(canon.rec.storygraph_genres)
        /\ AbsentOrNonMapping("review_summary") =>
             /\ canon.st = "ok" =>
                  /\ Empty(canon.rec.review_summary_liked)
                  /\ Empty(canon.rec.review_summary_disliked)
                  /\ Empty(canon.rec.review_summary_disagreed)
        /\ AbsentOrNonMapping("reading_progress") =>
             /\ ~(canon.st = "raised" /\ canon.line \in 66..82)
             /\ canon.st = "ok" =>
                  /\ Empty(canon.rec.status) \/ canon.rec.status = Get(raw, "status")
                  /\ Empty(canon.rec.current_page)
                  /\ Empty(canon.rec.total_pages)

\* fields the Review Merger attaches, read as they are
OuterPlainFields ==
    {"rating", "characters_rating", "plot_rating", "writing_style_rating",
     "setting_rating", "contains_spoilers", "did_not_finish"}

\* book-intrinsic fields read under the key of the same name
IntrinsicPlainFields ==
    {"title", "subtitle", "isbn", "description", "cover_image",
     "started_reading_at", "finished_reading_at"}

\* the part of C3 the code agrees with: with a nested mapping under `book`,
\* the rating, the per-aspect ratings, the review text, contains_spoilers
\* and did_not_finish come from the outer record, and a truthy
\* book-intrinsic value of the nested mapping is the one returned
C3_Common ==
    /\ \A f \in OuterPlainFields : canon.rec[f] = Get(raw, f)
    /\ canon.rec.review = Or2(Get(raw, "review"), EmptyStr)
    /\ \A f \in IntrinsicPlainFields :
         Truthy(Get(Nested, f)) => canon.rec[f] = Get(Nested, f)
    /\ IsList(Get(Nested, "genres")) => canon.rec.genres = NamesOf(Get(Nested, "genres"))
    /\ IsDict(Get(Nested, "storygraph_tags")) =>
         canon.rec.moods = GetD(Get(Nested, "storygraph_tags"), "moods", EmptyList)

\* C3 as stated: with a nested mapping under `book`, a value placed only in
\* the nested mapping never determines a review or reading-state field
\* (review summary, status, current_page, total_pages included).
C3_ReviewStateFromOuter ==
    (HasNested(raw) /\ canon.st = "ok") =>
        /\ C3_Common
        /\ "status" \notin DOMAIN raw.v => Empty(canon.rec.status)
        /\ "reading_progress" \notin DOMAIN raw.v =>
             Empty(canon.rec.current_page) /\ Empty(canon.rec.total_pages)
        /\ "review_summary" \notin DOMAIN raw.v =>
             /\ Empty(canon.rec.review_summary_liked)
             /\ Empty(canon.rec.review_summary_disliked)
             /\ Empty(canon.rec.review_summary_disagreed)

\* C3 amended: as C3 for the rating, the per-aspect ratings, the review
\* text, contains_spoilers and did_not_finish; but the review summary,
\* current_page and total_pages are read from the nested mapping's
\* review_summary and reading_progress, and status is the nested
\* reading_progress status, falling back to the outer `status`.
C3_Amended ==
    (HasNested(raw) /\ canon.st = "ok") =>
        /\ C3_Common
        /\ LET rp == Get(Nested, "reading_progress") IN
             /\ IsDict(rp) =>
                  /\ canon.rec.current_page = Get(rp, "current_page")
                  /\ canon.rec.total_pages = Get(rp, "page_count")
                  /\ canon.rec.status = Or2(Get(rp, "status"), Get(raw, "status"))
             /\ ~IsDict(rp) =>
                  /\ canon.rec.current_page = Null
                  /\ canon.rec.total_pages = Null
                  /\ canon.rec.status = Get(raw, "status")
        /\ LET rs == Get(Nested, "review_summary") IN
             /\ IsDict(rs) =>
                  /\ canon.rec.review_summary_liked = Get(rs, "liked")
                  /\ canon.rec.review_summary_disliked = Get(rs, "disliked")
                  /\ canon.rec.review_summary_disagreed = Get(rs, "disagreed")
             /\ ~IsDict(rs) =>
                  /\ Empty(canon.rec.review_summary_liked)
                  /\ Empty(canon.rec.review_summary_disliked)
                  /\ Empty(canon.rec.review_summary_disagreed)

\* a nested record whose reading_progress alone gives the status, beside an
\* outer rating
C3_Witness ==
    /\ HasNested(raw) /\ canon.st = "ok"
    /\ IsDict(Get(Nested, "reading_progress"))
    /\ Truthy(Get(Nested, "reading_progress"))
    /\ canon.rec.status = Str("nested")
    /\ Truthy(Get(raw, "rating"))
    /\ canon.rec.rating = Str("outer")

(***************************************************************************)
(* Claims about merge_reviews_with_books, checked under SpecMerge.         *)
(***************************************************************************)
\* the non-null, mapping-typed entries of the input, in input order
MappingBooks(bs) == SelectSeq(bs, LAMBDA b : b.t = "map")

\* the identifier of a record: under the nested `book` mapping when there
\* is one, else on the record itself
IdentifierOf(b) ==
    IF Get(b, "book").t = "map" THEN Get(Get(b, "book"), "id") ELSE Get(b, "id")

IsKey(id, lookup) == id.t = "str" /\ id.v \in DOMAIN lookup.v

\* keys no review entry carries, never touched by the overlay
IntrinsicKeys ==
    {"id", "book", "title", "subtitle", "authors", "isbn", "genres",
     "published_date", "storygraph_tags"}

\* C4: the merged list has one record per non-null, mapping-typed input
\* element, in the input order (so as many as the input when every element
\* is a mapping).
C4_MergeLength ==
    merged.st = "ok" =>
        LET kept == MappingBooks(books) IN
        /\ Len(merged.rec) = Cardinality({i \in 1..Len(books) : books[i].t = "map"})
        /\ \A i \in 1..Len(kept) :
             /\ Get(merged.rec[i], "title") = Get(kept[i], "title")
             /\ Get(merged.rec[i], "book") = Get(kept[i], "book")
        /\ (\A i \in 1..Len(books) : books[i].t = "map") => Len(merged.rec) = Len(books)

\* a malformed entry is dropped and an empty mapping is kept
C4_Witness ==
    /\ merged.st = "ok"
    /\ Len(books) = 2
    /\ books[1] = Null
    /\ books[2] = EmptyMap
    /\ Len(merged.rec) = 1

\* C5: a record whose identifier is absent or is no key of the review
\* lookup is emitted equal to the input record; with an empty lookup the
\* output equals the input.
C5_PassThrough ==
    merged.st = "ok" =>
        LET kept == MappingBooks(books) IN
        /\ Len(merged.rec) = Len(kept)
        /\ \A i \in 1..Len(kept) :
             ~IsKey(IdentifierOf(kept[i]), reviews) => merged.rec[i] = kept[i]
        /\ reviews = EmptyMap => merged.rec = kept

\* a reviewed identifier on the outer record, an unreviewed one under `book`
C5_Witness ==
    /\ merged.st = "ok"
    /\ Len(books) >= 1
    /\ books[1].t = "map"
    /\ Get(books[1], "book").t = "map"
    /\ IsKey(Get(books[1], "id"), reviews)
    /\ Truthy(IdentifierOf(books[1]))
    /\ ~IsKey(IdentifierOf(books[1]), reviews)
    /\ merged.rec[1] = books[1]

\* the overlay of the review entries on the records emitted for bs
OverlayHolds(bs, lookup, out) ==
    LET kept == MappingBooks(bs) IN
    /\ Len(out) = Len(kept)
    /\ \A i \in 1..Len(kept) :
         IsKey(IdentifierOf(kept[i]), lookup) =>
            LET entry == lookup.v[IdentifierOf(kept[i]).v] IN
            /\ DOMAIN entry.v \subseteq DOMAIN out[i].v
            /\ \A k \in DOMAIN entry.v : out[i].v[k] = entry.v[k]
            /\ \A k \in DOMAIN kept[i].v \cap IntrinsicKeys :
                 /\ k \in DOMAIN out[i].v
                 /\ out[i].v[k] = kept[i].v[k]
                 /\ k \notin DOMAIN entry.v

\* C6: for a record whose identifier is a key of the lookup the merger
\* emits a copy in which every key of the review entry has the review's
\* value and every book-intrinsic key keeps its value; the input list is
\* left as it was.
C6_Overlay ==
    [][(merged.st = "none" /\ merged'.st = "ok") =>
          /\ books' = books
          /\ OverlayHolds(books, reviews, merged'.rec)]_vars

\* a reviewed record whose own `rating` collides with the review's
C6_Witness ==
    /\ merged.st = "ok"
    /\ Len(books) >= 1
    /\ books[1].t = "map"
    /\ IsKey(IdentifierOf(books[1]), reviews)
    /\ "rating" \in DOMAIN books[1].v
    /\ books[1].v["rating"] = Str("old")
    /\ merged.rec[1].v["rating"] = Num(4)
    /\ merged.rec[1].v["title"] = books[1].v["title"]

(***************************************************************************)
(* Claims about the retrieval client, checked under Spec.                  *)
(***************************************************************************)
AnsweredOk(r) == r.net = "ok" /\ r.status < 400 /\ r.data # NotJson

\* the books a received page carries: a bare list, or the list under
\* `results` of a mapping
PageItems(r) ==
    IF ~AnsweredOk(r) THEN <<>>
    ELSE IF r.data.t = "list" THEN r.data.v
    ELSE IF r.data.t = "map" /\ GetD(r.data, "results", EmptyList).t = "list"
         THEN GetD(r.data, "results", EmptyList).v
    ELSE <<>>

RECURSIVE ConcatPages(_)
ConcatPages(rs) == IF rs = <<>> THEN <<>> ELSE PageItems(Head(rs)) \o ConcatPages(Tail(rs))

\* a mapping answer with a populated `next`
MappingWithNext(r) ==
    AnsweredOk(r) /\ r.data.t = "map" /\ Truthy(Get(r.data, "next"))

\* a mapping answer with a null or absent `next`, or a bare list
FinalOwnedPage(r) ==
    AnsweredOk(r) /\ (r.data.t = "list" \/ (r.data.t = "map" /\ ~Truthy(Get(r.data, "next"))))

\* a further request follows the i-th answer: it was issued, or the loop
\* is about to issue it
IssuedAfter(i) == i < Len(requests) \/ (i = Len(requests) /\ pc = "loop")

\* C7: fetch_owned_books requests one page after another: after a mapping
\* answer with a populated `next` it requests that URL, after a mapping
\* answer without `next` or a bare list it requests nothing more, and it
\* returns the concatenation of the results of the pages received.
C7_OwnedPagination ==
    call = "owned" =>
        /\ Len(responses) = Len(requests)
        /\ Len(requests) >= 1 => requests[1] = Request("owned", OwnedUrl, 0, 0)
        /\ \A i \in 1..Len(responses) :
             /\ MappingWithNext(responses[i]) =>
                  /\ IssuedAfter(i)
                  /\ i < Len(requests) =>
                       requests[i + 1].url = Get(responses[i].data, "next").v
                  /\ i = Len(requests) => url = Get(responses[i].data, "next")
             /\ FinalOwnedPage(responses[i]) =>
                  /\ ~IssuedAfter(i)
                  /\ pc = "returned"
        /\ pc = "returned" => result = List(ConcatPages(responses))

\* two pages, the second asked at the address the first gave
C7_Witness ==
    /\ call = "owned" /\ pc = "returned"
    /\ Len(requests) = 2
    /\ MappingWithNext(responses[1])
    /\ requests[2].url = "page-b"
    /\ Len(result.v) >= 2
    /\ result.v[1] = Num(1001)
    /\ result.v[Len(result.v)] = Num(2001)

\* the requests of fetch_books_from_list: limit 100 at offsets 0, 100, ...
ListRequestsInOrder ==
    \A i \in 1..Len(requests) :
        requests[i] = Request("list_books", "", (i - 1) * ListLimit, ListLimit)

\* C8 as stated: a next request is issued exactly when the last page held
\* len(results) == limit results.
C8_FullPageExactly ==
    call = "list_books" =>
        /\ ListRequestsInOrder
        /\ \A i \in 1..Len(responses) :
             IssuedAfter(i) <=>
                (AnsweredOk(responses[i]) /\ Len(PageItems(responses[i])) = ListLimit)
        /\ pc = "returned" => result = List(ConcatPages(responses))

\* the `results` of a mapping answer has at least `limit` elements
AtLeastFullPage(r) ==
    /\ AnsweredOk(r) /\ r.data.t = "map"
    /\ LET results == GetD(r.data, "results", EmptyList)
       IN  /\ results.t \in {"list", "str", "map"}
           /\ (CASE results.t = "map" -> Cardinality(DOMAIN results.v)
                 [] OTHER -> Len(results.v)) >= ListLimit

\* C8 amended: a next request is issued exactly when the last answer was a
\* mapping whose `results` holds at least `limit` elements; a bare-list
\* answer is final whatever its length.  Offsets and the returned
\* concatenation are as stated.
C8_Amended ==
    call = "list_books" =>
        /\ ListRequestsInOrder
        /\ \A i \in 1..Len(responses) : IssuedAfter(i) <=> AtLeastFullPage(responses[i])
        /\ pc = "returned" => result = List(ConcatPages(responses))

\* a full page then a short one
C8_Witness ==
    /\ call = "list_books" /\ pc = "returned"
    /\ Len(requests) = 2
    /\ requests[2].offset = ListLimit
    /\ Len(PageItems(responses[1])) = ListLimit
    /\ Len(result.v) = ListLimit + 1

RECURSIVE LookupOf(_, _)
\* the lookup built from the pages received, in order
LookupOf(lookup, rs) ==
    IF rs = <<>> THEN lookup
    ELSE LET r == Head(rs)
             results == IF AnsweredOk(r) /\ r.data.t = "map"
                        THEN GetD(r.data, "results", EmptyList) ELSE EmptyList
         IN  LookupOf(IF results.t = "list" THEN FilePage(lookup, results.v) ELSE lookup,
                      Tail(rs))

RequestFailed(r) == r.net = "error" \/ r.status >= 400

C10_FailFast ==
    (call # "none" /\ (~Truthy(user_id) \/ ~Truthy(auth_token))) =>
        /\ pc = "raised"
        /\ exc = "FableAPIError"
        /\ requests = <<>>
        /\ responses = <<>>

\* a call with the user identifier set and no token
C10_Witness ==
    /\ call = "list_books"
    /\ Truthy(user_id)
    /\ ~Truthy(auth_token)
    /\ pc = "raised"
    /\ requests = <<>>

(***************************************************************************)
(* Claims about fetch_all_books and export_books, checked under SpecExport.*)
(***************************************************************************)
\* the calls of one fetch operation in the log, in call order
CallsOf(op) == SelectSeq(fetches, LAMBDA f : f.op = op)

RECURSIVE BooksReturned(_)
\* the books of the calls that returned, one after the other
BooksReturned(calls) ==
    IF calls = <<>> THEN <<>>
    ELSE (IF Head(calls).out.st = "returned" THEN Head(calls).out.val ELSE <<>>)
         \o BooksReturned(Tail(calls))

\* the run ended in the exception the last fetch of operation op raised
AbortedBy(op) ==
    /\ exit_status = 1
    /\ fetches # <<>>
    /\ fetches[Len(fetches)].op = op
    /\ fetches[Len(fetches)].out.st = "raised"
    /\ escaped = fetches[Len(fetches)].out.exc

\* fetch_all_books has returned to export_books
Aggregated ==
    /\ ~separate_lists
    /\ stage = "formats" \/ (stage = "done" /\ exit_status = 0)

\* the identifiers of the catalog entries the aggregator fetches, in
\* catalog order
CatalogIds(catalog) ==
    LET with_id == SelectSeq(catalog, LAMBDA l : l.t = "map" /\ Truthy(Get(l, "id")))
    IN  [i \in 1..Len(with_id) |-> Get(with_id[i], "id")]

\* C11: fetch_all_books returns the owned books (none if that fetch failed)
\* followed by the books of every list whose fetch succeeded, in catalog
\* order, duplicates kept; a failed owned fetch or a failed fetch of one
\* list never aborts the aggregation.
C11_Aggregation ==
    ~separate_lists =>
        /\ ~AbortedBy("owned")
        /\ ~AbortedBy("list_books")
        /\ Aggregated =>
             /\ gathered = BooksReturned(CallsOf("owned")) \o BooksReturned(CallsOf("list_books"))
             /\ \A i \in 1..Len(CallsOf("lists")) :
                  LET c == CallsOf("lists")[i].out IN
                  (c.st = "returned" /\ c.val.t = "list") =>
                      [j \in 1..Len(CallsOf("list_books")) |-> CallsOf("list_books")[j].arg]
                        = CatalogIds(c.val.v)

\* the run was started without a user identifier or without a token
CredentialsMissing == ~Truthy(user_id) \/ ~Truthy(auth_token)

\* the fetches of the log that ended in the retrieval error
RetrievalErrors ==
    SelectSeq(fetches, LAMBDA f : f.out.st = "raised" /\ f.out.exc = "FableAPIError")

\* a fetch of the log ended in an exception that is no retrieval error
OtherExceptionRaised ==
    \E i \in 1..Len(fetches) :
        fetches[i].out.st = "raised" /\ fetches[i].out.exc # "FableAPIError"

\* the catalog fetch returned a value the aggregator's loop cannot walk: no
\* list, or a list with an entry that is no mapping
CatalogUnwalkable ==
    \E i \in 1..Len(fetches) :
        /\ fetches[i].op = "lists" /\ fetches[i].out.st = "returned"
        /\ LET c == fetches[i].out.val IN
           \/ c.t # "list"
           \/ \E j \in 1..Len(c.v) : c.v[j].t # "map"

\* the exports of the log that raised
FailedWrites == SelectSeq(writes, LAMBDA w : w.out.st = "raised")

\* the review endpoint, or the list-catalog endpoint, could not be reached
EndpointUnreachable ==
    \E i \in 1..Len(fetches) :
        \/ fetches[i].op = "reviews" /\ fetches[i].out.st = "returned"
             /\ fetches[i].out.via = "transport failure"
        \/ fetches[i].op = "lists" /\ fetches[i].out.st = "raised"
             /\ fetches[i].out.exc = "FableAPIError"

\* C12: a combined run that has ended was aborted with status 1 exactly
\* when the credentials are missing, or a fetch raised an exception that is
\* no retrieval error, or the catalog returned cannot be walked; a
\* retrieval error of the owned-books fetch, of the catalog fetch or of one
\* list's fetch, an unreachable review endpoint and a failed write each
\* leave a warning (none for the reviews) and the run goes on to status 0.
C12_AbortPolicy ==
    (~separate_lists /\ stage = "done") =>
        /\ exit_status \in {0, 1}
        /\ exit_status = 1 <=>
              (CredentialsMissing \/ OtherExceptionRaised \/ CatalogUnwalkable)
        /\ ~CredentialsMissing =>
              /\ escaped # "FableAPIError" /\ escaped # "SystemExit"
              /\ Len(warnings) = Len(RetrievalErrors) + Len(FailedWrites)

\* a combined run that went on after the review endpoint and the catalog
\* endpoint could not be reached, and after a write failed, to status 0
C12_Witness ==
    /\ ~separate_lists /\ stage = "done" /\ exit_status = 0
    /\ \E i \in 1..Len(fetches) :
         fetches[i].op = "reviews" /\ fetches[i].out.via = "transport failure"
    /\ \E i \in 1..Len(fetches) :
         fetches[i].op = "lists" /\ fetches[i].out.st = "raised"
    /\ FailedWrites # <<>>
    /\ Len(warnings) = 2

\* C12 as stated: aborted exactly when the credentials are missing or the
\* review or list-catalog endpoint cannot be reached
C12_AsStated ==
    (~separate_lists /\ stage = "done") =>
        (exit_status # 0 <=> (CredentialsMissing \/ EndpointUnreachable))

\* the catalog the run per list walks
Catalog == CallsOf("lists")[1].out.val.v

\* the i-th list of the catalog is exported: its fetch returned a book
\* that is a mapping, and its name is a text
IsUnit(i) ==
    LET c == CallsOf("list_books")[i].out
        list_name == IF "name" \in DOMAIN Catalog[i].v THEN Catalog[i].v.name
                     ELSE Str("Unknown")
    IN  /\ c.st = "returned"
        /\ \E k \in 1..Len(c.val) : c.val[k].t = "map"
        /\ list_name.t = "str"

\* a run per list came to its end
PerListDone == separate_lists /\ stage = "done" /\ exit_status = 0

\* every list of the catalog was fetched, in catalog order, and every
\* requested format was attempted for every list exported
EveryListVisited ==
    /\ Len(CallsOf("list_books")) = Len(Catalog)
    /\ \A i \in 1..Len(Catalog) :
          CallsOf("list_books")[i].arg
            = (IF "id" \in DOMAIN Catalog[i].v THEN Catalog[i].v.id ELSE Null)
    /\ Len(writes)
          = Len(formats) * Cardinality({i \in 1..Len(Catalog) : IsUnit(i)})
    /\ \A k \in 1..Len(writes) :
          writes[k].fmt = formats[((k - 1) % Len(formats)) + 1]

\* the step is an export that raised
WriteFailed == writes' # writes /\ writes'[Len(writes')].out.st = "raised"

\* the files written whole before the step are the same after it
WholeFilesKept ==
    \A q \in DOMAIN fs.files :
        fs.files[q].complete => (q \in DOMAIN fs'.files /\ fs'.files[q] = fs.files[q])

\* C17: in a run per list a failed fetch of one list's books skips that
\* list only, and the later lists are fetched and exported; a failed write
\* of one format leaves the other requested formats attempted; no failure
\* changes a file written whole before it.
C17_Isolation ==
    [][separate_lists =>
          /\ ~AbortedBy("list_books")'
          /\ PerListDone' => (CallsOf("lists")[1].out.st = "returned" => EveryListVisited)'
          /\ WriteFailed => WholeFilesKept]_vars

(***************************************************************************)
(* Claims about the exporters, checked under SpecWrite.                    *)
(***************************************************************************)
\* the call of the log
TheWrite == writes[1]

\* an exporter has been called and has ended
Called == writes # <<>>

\* the file the call left at its output path
TheFile == fs.files[TheWrite.path]

\* C13: each of export_to_csv, export_to_json and export_to_markdown,
\* called with an empty book list, raises ValueError ("No books to export")
\* and leaves the file system as it was: no directory made, no file made
\* or truncated.
C13_EmptyListRefused ==
    [][(writes' # writes /\ to_export = <<>>) =>
          /\ writes'[1].books = <<>>
          /\ writes'[1].out.st = "raised" /\ writes'[1].out.exc = "ValueError"
          /\ fs' = fs]_vars

\* export_to_markdown refused an empty list and the file an earlier export
\* left at the path is still whole
C13_Witness ==
    /\ Called /\ TheWrite.fmt = "md" /\ TheWrite.books = <<>>
    /\ TheWrite.out.st = "raised" /\ TheWrite.out.exc = "ValueError"
    /\ TheWrite.path \in DOMAIN fs.files /\ TheFile = OldFile

\* the call returned the path of the file it wrote
WroteFile(fmt) == Called /\ TheWrite.fmt = fmt /\ TheWrite.out.st = "ok"

\* the entries of the input that are not null
InputBooks == SelectSeq(TheWrite.books, LAMBDA b : b # Null)

\* the canonical records of the input books, in input order (every entry
\* normalizes when the call returned)
InputRecords == [i \in 1..Len(InputBooks) |-> NormalizeBook(InputBooks[i]).rec]

\* the input records of one status, in input order
OfStatus(status) == SelectSeq(InputRecords, LAMBDA r : r.status = Str(status))

\* the heading line of a section and of a book
Heading(label, n) == "\n## " \o label \o " (" \o ToString(n) \o ")\n"
BookHeading(r) == "### " \o PyStr(r.title) \o "\n"

\* the lines of a file that are section headings or book headings
Skeleton(lines) ==
    LET labels == {"Finished", "Currently Reading", "Want to Read", "Abandoned",
                   "Unknown", "None"}
        headings == {Heading(l, n) : l \in labels, n \in 0..Len(TheWrite.books)}
                    \cup {BookHeading(InputRecords[i]) : i \in 1..Len(InputRecords)}
    IN  SelectSeq(lines, LAMBDA line : line \in headings)

\* the section expected for one canonical status: nothing for an empty
\* group, else its heading and its books in input order
ExpectedSection(status, label) ==
    LET group == OfStatus(status) IN
    IF group = <<>> THEN <<>>
    ELSE <<Heading(label, Len(group))>>
         \o [i \in 1..Len(group) |-> BookHeading(group[i])]

\* C14: in the Markdown file the sections of `finished`, `reading` and
\* `unread` come in that order whatever the input order, a section is
\* written only for a group that has a book, and the books of a section
\* keep the order they have in the input.
C14_SectionOrder ==
    WroteFile("md") =>
        LET canonical == {BookHeading(r) : r \in {InputRecords[i] : i \in
                              {j \in 1..Len(InputRecords) :
                                  InputRecords[j].status \in
                                      {Str("finished"), Str("reading"), Str("unread")}}}}
            others == {BookHeading(InputRecords[i]) : i \in 1..Len(InputRecords)}
                      \ canonical
            labels == {"Abandoned", "Unknown", "None"}
            foreign == others \cup {Heading(l, n) : l \in labels,
                                                    n \in 0..Len(TheWrite.books)}
        IN  SelectSeq(Skeleton(TheFile.body), LAMBDA line : line \notin foreign)
              = ExpectedSection("finished", "Finished")
                \o ExpectedSection("reading", "Currently Reading")
                \o ExpectedSection("unread", "Want to Read")

\* a Markdown file written from an unread book followed by two different
\* finished books
C14_Witness ==
    /\ WroteFile("md") /\ TheFile.complete
    /\ Len(InputRecords) = 3
    /\ InputRecords[1].status = Str("unread")
    /\ InputRecords[2].status = Str("finished")
    /\ InputRecords[3].status = Str("finished")
    /\ InputRecords[2].title # InputRecords[3].title

\* the number of lines of a file equal to one line
Occurrences(lines, line) == Cardinality({i \in 1..Len(lines) : lines[i] = line})

\* the number of input books that get the same book heading as record r
SameHeading(r) ==
    Cardinality({i \in 1..Len(InputRecords) :
                    BookHeading(InputRecords[i]) = BookHeading(r)})

\* the book headings of a file
RenderedBooks(lines) ==
    SelectSeq(lines, LAMBDA line :
        line \in {BookHeading(InputRecords[i]) : i \in 1..Len(InputRecords)})

\* C15: in the Markdown file a book of any status other than `finished`,
\* `reading`, `unread` has its own section, headed by the title-cased
\* status, after the canonical sections; every non-null input book is
\* rendered exactly once and the number of rendered books is the total the
\* file reports.
C15_EveryBookRendered ==
    WroteFile("md") =>
        /\ \A i \in 1..Len(InputRecords) :
              Occurrences(TheFile.body, BookHeading(InputRecords[i]))
                = SameHeading(InputRecords[i])
        /\ Occurrences(TheFile.body,
                       "Total books: "
                       \o ToString(Len(RenderedBooks(TheFile.body))) \o "\n") = 1
        /\ OfStatus("abandoned") # <<>> =>
              \E k \in 1..Len(TheFile.body) :
                  /\ TheFile.body[k] = Heading("Abandoned", Len(OfStatus("abandoned")))
                  /\ \A j \in 1..Len(TheFile.body) :
                        TheFile.body[j] \in
                            {Heading(l, n) : l \in {"Finished", "Currently Reading",
                                                     "Want to Read"},
                                             n \in 1..Len(TheWrite.books)}
                        => j < k

\* the rating fields of the i-th object of the JSON file, with the
\* canonical field each is made from
JsonRatings(i) ==
    LET o == TheFile.body[i].v
        r == InputRecords[i]
    IN  {<<o.rating, r.rating>>,
         <<o.detailed_ratings.v.characters, r.characters_rating>>,
         <<o.detailed_ratings.v.plot, r.plot_rating>>,
         <<o.detailed_ratings.v.writing_style, r.writing_style_rating>>,
         <<o.detailed_ratings.v.setting, r.setting_rating>>}

\* C19: in the JSON file `rating` and the four fields of
\* `detailed_ratings` of every book are the floating-point value of the
\* canonical rating when that is a number from 0 to 5, and are null only
\* when the canonical rating is absent.
C19_RatingsAsFloat ==
    WroteFile("json") =>
        /\ Len(TheFile.body) = Len(InputRecords)
        /\ \A i \in 1..Len(InputRecords) : \A pair \in JsonRatings(i) :
              /\ (pair[2].t = "num" /\ pair[2].v \in 0..5) =>
                    pair[1] = [t |-> "float", v |-> pair[2].v]
              /\ pair[1] = Null => pair[2] = Null

\* the columns that hold one canonical field as it is, with that field
PlainColumns ==
    {<<"Title", "title">>, <<"Subtitle", "subtitle">>, <<"Publisher", "imprint">>,
     <<"Pages", "page_count">>, <<"Status", "status">>, <<"Rating", "rating">>,
     <<"Characters Rating", "characters_rating">>, <<"Plot Rating", "plot_rating">>,
     <<"Writing Style Rating", "writing_style_rating">>,
     <<"Setting Rating", "setting_rating">>, <<"Review", "review">>,
     <<"Review Summary - Liked", "review_summary_liked">>,
     <<"Review Summary - Disliked", "review_summary_disliked">>,
     <<"Review Summary - Disagreed", "review_summary_disagreed">>,
     <<"Emoji Reaction", "emoji_reaction">>,
     <<"Started Reading", "started_reading_at">>,
     <<"Finished Reading", "finished_reading_at">>,
     <<"Published Date", "published_date">>}

\* the boolean columns, with their canonical field
BooleanColumns ==
    {<<"Contains Spoilers", "contains_spoilers">>,
     <<"Did Not Finish", "did_not_finish">>}

\* the data row of the CSV file written for the i-th input book
DataRow(i) == TheFile.body[i + 1]

\* the file has the header and one row per input book, in input order
OneRowPerBook ==
    /\ TheFile.body[1] = fieldnames
    /\ Len(TheFile.body) = 1 + Len(InputRecords)
    /\ \A i \in 1..Len(InputRecords) :
          InputRecords[i].title.t = "str" => DataRow(i)["Title"] = InputRecords[i].title.v

\* C20: the CSV file a returning export_to_csv leaves has one data row per
\* input book that is not null, in input order; `Contains Spoilers` and
\* `Did Not Finish` are `Yes` for a true value and `No` for a false or
\* missing value; every other column whose canonical value is missing is
\* an empty cell.
C20_Rows ==
    WroteFile("csv") =>
        /\ OneRowPerBook
        /\ \A i \in 1..Len(InputRecords) :
              /\ \A col \in BooleanColumns :
                    DataRow(i)[col[1]] =
                        (IF InputRecords[i][col[2]] = [t |-> "bool", v |-> TRUE]
                         THEN "Yes" ELSE "No")
              /\ \A col \in PlainColumns :
                    InputRecords[i][col[2]] = Null => DataRow(i)[col[1]] = ""

\* a CSV file written from a null entry and a book that was not finished
\* and says nothing about spoilers
C20_Witness ==
    /\ WroteFile("csv") /\ TheFile.complete
    /\ Len(TheWrite.books) > Len(InputRecords)
    /\ \E i \in 1..Len(InputRecords) :
          /\ InputRecords[i].contains_spoilers = Null
          /\ InputRecords[i].did_not_finish = [t |-> "bool", v |-> TRUE]
          /\ DataRow(i)["Contains Spoilers"] = "No"
          /\ DataRow(i)["Did Not Finish"] = "Yes"
          /\ DataRow(i)["Rating"] = "0"

\* C20 as stated: one row per book, `Yes` for true and `No` for false, and
\* an empty cell in any column whose canonical value is missing
C20_AsStated ==
    WroteFile("csv") =>
        /\ OneRowPerBook
        /\ \A i \in 1..Len(InputRecords) :
              \A col \in BooleanColumns \cup PlainColumns :
                  /\ InputRecords[i][col[2]] = [t |-> "bool", v |-> TRUE]
                        => DataRow(i)[col[1]] = "Yes"
                  /\ InputRecords[i][col[2]] = [t |-> "bool", v |-> FALSE]
                        => DataRow(i)[col[1]] = "No"
                  /\ InputRecords[i][col[2]] = Null => DataRow(i)[col[1]] = ""

(***************************************************************************)
(* Further claims about the retrieval client, checked under Spec.          *)
(***************************************************************************)
\* the answer to the last request
LastAnswer == responses[Len(responses)]

\* an answer the operation cannot use: the request failed, or the body is
\* neither a list nor a mapping
Unusable(r) ==
    \/ r.net = "error"
    \/ r.status >= 400
    \/ r.data.t \notin {"list", "map"}

\* C16: fetch_owned_books, fetch_user_lists and fetch_books_from_list end
\* in FableAPIError, with nothing returned, when a request fails on any
\* page or an answer is neither a list nor a mapping, whatever the pages
\* received before.
C16_RetrievalError ==
    (call \in {"owned", "lists", "list_books"} /\ responses # <<>>
     /\ Unusable(LastAnswer)) =>
        /\ pc = "raised" /\ exc = "FableAPIError"
        /\ result = Null

\* the i-th request went to the primary endpoint and was answered 404
NotFoundAt(i) ==
    /\ requests[i].ep = "reviews_v2"
    /\ responses[i].net = "ok" /\ responses[i].status = 404

Paging == call \in {"owned", "list_books", "reviews"} /\ pc = "loop"

\* the operation has ended: it returned a result or raised an error
Ended == pc \in {"returned", "raised"}

\* a step issues the requests of one page at most: one request, or the v2
\* request answered 404 followed by the v1 request
OnePageAStep ==
    \/ requests' = requests
    \/ /\ Len(requests') = Len(requests) + 1
       /\ SubSeq(requests', 1, Len(requests)) = requests
    \/ /\ call = "reviews"
       /\ Len(requests') = Len(requests) + 2
       /\ SubSeq(requests', 1, Len(requests)) = requests
       /\ requests'[Len(requests) + 1].ep = "reviews_v2"
       /\ responses'[Len(requests) + 1].net = "ok"
       /\ responses'[Len(requests) + 1].status = 404
       /\ requests'[Len(requests) + 2].ep = "reviews_v1"

\* C21: each of fetch_owned_books, fetch_books_from_list and
\* fetch_user_reviews, once in its loop, comes to return a result or to
\* raise an error when the server comes to signal completion or a request
\* fails; requests are issued one at a time, each answered before the next.
C21_Terminates ==
    /\ [](Len(responses) = Len(requests))
    /\ [][OnePageAStep]_vars
    /\ (Paging ~> Ended)

\* fetch_books_from_list returned after the server let it make its last
\* request, which a short page answered after full pages
C21_Witness ==
    /\ call = "list_books" /\ pc = "returned"
    /\ Len(requests) = MaxRequests
    /\ \A i \in 1..(Len(responses) - 1) : Len(PageItems(responses[i])) >= ListLimit
    /\ Len(PageItems(responses[Len(responses)])) \in 1..(ListLimit - 1)

====
